---- MODULE Spec2Model ----
(***************************************************************************)
(* Tree engines of the Tree-Traversal-Animator: the Binary Search Tree     *)
(* (src/src/App.jsx, class BST of logic/tree), the AVL tree (App.jsx,      *)
(* class AVLTree of logic/avl) and the Red-Black tree                      *)
(* (src/src/logic/redBlackTree.js).                                        *)
(*                                                                         *)
(* A tree object is a record [root, nodes, nodeIdCounter]: nodes is the    *)
(* heap of Node objects reachable from the root, keyed by node id, and a   *)
(* reference to a node is its id (NULL for null).  BST ids are the strings *)
(* `node-N`; they are represented by N.  The layout fields x, y and scale  *)
(* of a node and the duration of a step are not represented.               *)
(*                                                                         *)
(* A message of an update-status step is represented by a tag naming the   *)
(* template of the text and by the values substituted into it.             *)
(***************************************************************************)
EXTENDS Integers, Sequences, FiniteSets, TLC

VARIABLES treeType,    \* engine of the live tree: "BST", "AVL" or "RBTree"
          tree,        \* the live tree object
          pre,         \* the tree object as it was when the last call started
          lastOp,      \* the last public call: [op, value]
          animations,  \* the step list built by the last call
          found,       \* the `found` field of the object the last call returned
          stored,      \* the set kept by set-add on insert and set-remove on delete
          threw,       \* TRUE when the last call ended with a TypeError
          result,      \* the `result` array of the object the last traversal returned
          copy,        \* the tree object the last clone call returned
          aliased,     \* TRUE when node objects of copy are node objects of tree
          \* The state of the App component; there treeType and tree are the
          \* class and the fields of treeInstance.
          selectedType,          \* the App's treeType state
          isAnimating,
          animationQueue,
          currentAnimationIndex,
          undoStack,
          redoStack,
          treeBeforeAnimation,
          events,      \* the last handlers that ran past their guards, newest first
          blocked,     \* the last handler call that returned at `if (isAnimating) return`
          input        \* the last submission of a form of the control panel

\* The App component's state.
appVars == <<selectedType, isAnimating, animationQueue, currentAnimationIndex,
             undoStack, redoStack, treeBeforeAnimation, events, blocked, input>>

vars == <<treeType, tree, pre, lastOp, animations, found, stored, threw,
          result, copy, aliased, selectedType, isAnimating, animationQueue,
          currentAnimationIndex, undoStack, redoStack, treeBeforeAnimation,
          events, blocked, input>>

\* insert, delete and search return no result list, and no clone is made or
\* touched by a call on the tree instance alone; a call made on a tree
\* instance outside the App leaves the App's state alone.
NoResult == result' = <<>> /\ UNCHANGED <<copy, aliased>> /\ UNCHANGED appVars

\* ---------------------------------------------------------------- bounds
MaxVal == 4
MaxIds == 4
DeepMaxVal == 5
DeepMaxIds == 7

Values == 1..MaxVal
DeepValues == 1..DeepMaxVal

\* ---------------------------------------------------------------- constants
NULL == -1
RED == "red"
BLACK == "black"
TreeTypes == {"BST", "AVL", "RBTree"}

\* ---------------------------------------------------------------- Node
Node(value) ==
  [value |-> value, id |-> NULL, left |-> NULL, right |-> NULL, parent |-> NULL,
   height |-> 1, color |-> RED]

EmptyTree == [root |-> NULL, nodes |-> [i \in {} |-> Node(0)], nodeIdCounter |-> 0]

\* The value of copy while no clone call has returned a tree.
NoCopy == [root |-> NULL, nodes |-> [i \in {} |-> Node(0)], nodeIdCounter |-> -1]

\* ---------------------------------------------------------------- steps
Status(tag, a, b) ==
  [type |-> "update-status", nodeId |-> NULL, tag |-> tag, a |-> a, b |-> b]

Highlight(id, state) ==
  [type |-> "highlight-node", nodeId |-> id, tag |-> state, a |-> NULL, b |-> NULL]

Recolor(id, color) ==
  [type |-> "recolor-node", nodeId |-> id, tag |-> color, a |-> NULL, b |-> NULL]

\* ------------------------------------------------- the state of a running call
\* s = [root, nodes, ctr, anims, threw, assigned]: the tree object's fields, the
\* animations array, whether a TypeError has been thrown, and the colour
\* assignments `<node>.color = <colour>` the call has made, in order, and the
\* passes through the body of a fix-up loop it has begun.
Start(t) ==
  [root |-> t.root, nodes |-> t.nodes, ctr |-> t.nodeIdCounter,
   anims |-> <<>>, threw |-> FALSE, assigned |-> <<>>, passes |-> <<>>]

Push(s, step) == [s EXCEPT !.anims = Append(@, step)]

\* The number of parent links from node n up to a node without parent, at most
\* fuel of them.
RECURSIVE Depth(_, _, _)
Depth(nodes, n, fuel) ==
  IF fuel = 0 THEN 0
  ELSE IF nodes[n].parent = NULL THEN 0
  ELSE 1 + Depth(nodes, nodes[n].parent, fuel - 1)

\* The body of a fix-up loop is entered with the cursor at node: the depth of
\* the cursor and the number of steps pushed so far are noted.
Pass(s, node) ==
  [s EXCEPT !.passes = Append(@, [node  |-> node,
                                  depth |-> Depth(s.nodes, node, Cardinality(DOMAIN s.nodes)),
                                  at    |-> Len(s.anims)])]
Throw(s) == [s EXCEPT !.threw = TRUE]

Alloc(s, id, n) ==
  [s EXCEPT !.nodes = [i \in (DOMAIN s.nodes) \cup {id} |->
                         IF i = id THEN [n EXCEPT !.id = id] ELSE s.nodes[i]]]

SetLeft(s, id, x)   == [s EXCEPT !.nodes[id].left = x]
SetRight(s, id, x)  == [s EXCEPT !.nodes[id].right = x]
SetParent(s, id, x) == [s EXCEPT !.nodes[id].parent = x]
SetColor(s, id, x)  ==
  [s EXCEPT !.nodes[id].color = x, !.assigned = Append(@, <<id, x>>)]
SetHeight(s, id, x) == [s EXCEPT !.nodes[id].height = x]
SetValue(s, id, x)  == [s EXCEPT !.nodes[id].value = x]
SetRoot(s, x)       == [s EXCEPT !.root = x]

\* Nodes reachable from node n through left and right.
RECURSIVE Reach(_, _)
Reach(nodes, n) ==
  IF n = NULL THEN {}
  ELSE {n} \cup Reach(nodes, nodes[n].left) \cup Reach(nodes, nodes[n].right)

\* The tree object a call leaves behind: unreachable Node objects are garbage.
Finish(s) ==
  LET live == Reach(s.nodes, s.root)
  IN [root |-> s.root,
      nodes |-> [i \in live |-> s.nodes[i]],
      nodeIdCounter |-> s.ctr]

\* ======================================================== Red-Black tree
\* rotateLeft: `if (node.right) node.right.parent = node`.
RBT_rotateLeft_adopt(s, node) ==
  IF s.nodes[node].right # NULL THEN SetParent(s, s.nodes[node].right, node) ELSE s

\* The relinking of rotateLeft without `this.root = rightChild` for a node that
\* has no parent.
RBT_rotateLeft_link_keepRoot(s, node, rightChild) ==
  LET p == s.nodes[node].parent
  IN IF p = NULL THEN SetParent(s, rightChild, p)
     ELSE IF node = s.nodes[p].left THEN SetLeft(SetParent(s, rightChild, p), p, rightChild)
     ELSE SetRight(SetParent(s, rightChild, p), p, rightChild)

\* rotateLeft: `rightChild.parent = node.parent` and the link of rightChild in
\* the place of node.
RBT_rotateLeft_link(s, node, rightChild) ==
  LET p == s.nodes[node].parent
  IN IF p = NULL THEN SetRoot(SetParent(s, rightChild, p), rightChild)
     ELSE IF node = s.nodes[p].left THEN SetLeft(SetParent(s, rightChild, p), p, rightChild)
     ELSE SetRight(SetParent(s, rightChild, p), p, rightChild)

\* Read inside out: push the status, node.right = rightChild.left, adopt, link,
\* rightChild.left = node, node.parent = rightChild, push the pivot highlight.
RBT_rotateLeft(s, node) ==
  LET rightChild == s.nodes[node].right
  IN IF rightChild = NULL
     THEN Throw(Push(s, Status("left-rotation", s.nodes[node].value, NULL)))
     ELSE Push(
            SetParent(
              SetLeft(
                RBT_rotateLeft_link(
                  RBT_rotateLeft_adopt(
                    SetRight(Push(s, Status("left-rotation", s.nodes[node].value, NULL)),
                             node, s.nodes[rightChild].left),
                    node),
                  node, rightChild),
                rightChild, node),
              node, rightChild),
            Highlight(rightChild, "pivot"))

\* rotateRight: `if (node.left) node.left.parent = node`.
RBT_rotateRight_adopt(s, node) ==
  IF s.nodes[node].left # NULL THEN SetParent(s, s.nodes[node].left, node) ELSE s

\* rotateRight: `leftChild.parent = node.parent` and the link of leftChild in
\* the place of node.
RBT_rotateRight_link(s, node, leftChild) ==
  LET p == s.nodes[node].parent
  IN IF p = NULL THEN SetRoot(SetParent(s, leftChild, p), leftChild)
     ELSE IF node = s.nodes[p].right THEN SetRight(SetParent(s, leftChild, p), p, leftChild)
     ELSE SetLeft(SetParent(s, leftChild, p), p, leftChild)

RBT_rotateRight(s, node) ==
  LET leftChild == s.nodes[node].left
  IN IF leftChild = NULL
     THEN Throw(Push(s, Status("right-rotation", s.nodes[node].value, NULL)))
     ELSE Push(
            SetParent(
              SetRight(
                RBT_rotateRight_link(
                  RBT_rotateRight_adopt(
                    SetLeft(Push(s, Status("right-rotation", s.nodes[node].value, NULL)),
                            node, s.nodes[leftChild].right),
                    node),
                  node, leftChild),
                leftChild, node),
              node, leftChild),
            Highlight(leftChild, "pivot"))

\* The uncle-RED case without `grandparent.color = RED`.
RBT_fixInsert_recolor_blackOnly(s, parent, uncle, gp) ==
  Push(Push(
    SetColor(SetColor(Push(s, Status("uncle-red", NULL, NULL)),
                      parent, BLACK), uncle, BLACK),
    Recolor(parent, BLACK)), Recolor(uncle, BLACK))

\* Case 1 of _fixInsert: the uncle is RED; parent and uncle become BLACK, the
\* grandparent RED.
RBT_fixInsert_recolor(s, parent, uncle, gp) ==
  Push(Push(Push(
    SetColor(SetColor(SetColor(Push(s, Status("uncle-red", NULL, NULL)),
                               parent, BLACK), uncle, BLACK), gp, RED),
    Recolor(parent, BLACK)), Recolor(uncle, BLACK)), Recolor(gp, RED))

\* The two assignments of the Left-Left and Right-Right cases with the two
\* recolor steps pushed grandparent first.
RBT_fixInsert_recolorPair_swapped(s, p, g) ==
  Push(Push(SetColor(SetColor(s, p, BLACK), g, RED), Recolor(g, RED)), Recolor(p, BLACK))

\* `node.parent.color = BLACK; node.parent.parent.color = RED` and the two
\* recolor steps of the Left-Left and Right-Right cases.
RBT_fixInsert_recolorPair(s, p, g) ==
  Push(Push(SetColor(SetColor(s, p, BLACK), g, RED), Recolor(p, BLACK)), Recolor(g, RED))

\* The Left-Left case without its right rotation at the grandparent.
RBT_fixInsert_leftLeft_recolorOnly(s, node) ==
  IF node = NULL THEN Throw(Push(s, Status("left-left-case", NULL, NULL)))
  ELSE IF s.nodes[node].parent = NULL
  THEN Throw(Push(s, Status("left-left-case", NULL, NULL)))
  ELSE IF s.nodes[s.nodes[node].parent].parent = NULL
  THEN Throw(SetColor(Push(s, Status("left-left-case", NULL, NULL)),
                      s.nodes[node].parent, BLACK))
  ELSE RBT_fixInsert_recolorPair(Push(s, Status("left-left-case", NULL, NULL)),
                                 s.nodes[node].parent,
                                 s.nodes[s.nodes[node].parent].parent)

\* Left-Left case: recolor and rotate right at the grandparent.
RBT_fixInsert_leftLeft(s, node) ==
  IF node = NULL THEN Throw(Push(s, Status("left-left-case", NULL, NULL)))
  ELSE IF s.nodes[node].parent = NULL
  THEN Throw(Push(s, Status("left-left-case", NULL, NULL)))
  ELSE IF s.nodes[s.nodes[node].parent].parent = NULL
  THEN Throw(SetColor(Push(s, Status("left-left-case", NULL, NULL)),
                      s.nodes[node].parent, BLACK))
  ELSE RBT_rotateRight(
         RBT_fixInsert_recolorPair(Push(s, Status("left-left-case", NULL, NULL)),
                                   s.nodes[node].parent,
                                   s.nodes[s.nodes[node].parent].parent),
         s.nodes[s.nodes[node].parent].parent)

\* Right-Right case: recolor and rotate left at the grandparent.
RBT_fixInsert_rightRight(s, node) ==
  IF node = NULL THEN Throw(Push(s, Status("right-right-case", NULL, NULL)))
  ELSE IF s.nodes[node].parent = NULL
  THEN Throw(Push(s, Status("right-right-case", NULL, NULL)))
  ELSE IF s.nodes[s.nodes[node].parent].parent = NULL
  THEN Throw(SetColor(Push(s, Status("right-right-case", NULL, NULL)),
                      s.nodes[node].parent, BLACK))
  ELSE RBT_rotateLeft(
         RBT_fixInsert_recolorPair(Push(s, Status("right-right-case", NULL, NULL)),
                                   s.nodes[node].parent,
                                   s.nodes[s.nodes[node].parent].parent),
         s.nodes[s.nodes[node].parent].parent)

\* Left-Right case, s being the state after `this.rotateLeft(tempNode.parent)`:
\* `node = tempNode.left`, then the Left-Left case.
RBT_fixInsert_afterRotateLeft(s, tempNode) ==
  IF s.threw THEN [s |-> s, node |-> tempNode]
  ELSE [s |-> RBT_fixInsert_leftLeft(s, s.nodes[tempNode].left),
        node |-> s.nodes[tempNode].left]

\* Right-Left case, s being the state after `this.rotateRight(tempNode.parent)`:
\* `node = tempNode.right`, then the Right-Right case.
RBT_fixInsert_afterRotateRight(s, tempNode) ==
  IF s.threw THEN [s |-> s, node |-> tempNode]
  ELSE [s |-> RBT_fixInsert_rightRight(s, s.nodes[tempNode].right),
        node |-> s.nodes[tempNode].right]

\* One pass of the body of the while loop of _fixInsert, parent being the left
\* child of the grandparent.  Returns the call state and the cursor.
RBT_fixInsertLeft(s, node) ==
  LET parent == s.nodes[node].parent
      gp     == s.nodes[parent].parent
      uncle  == s.nodes[gp].right
  IN IF uncle # NULL /\ s.nodes[uncle].color = RED
     THEN [s |-> RBT_fixInsert_recolor(s, parent, uncle, gp), node |-> gp]
     ELSE IF node = s.nodes[parent].right
     THEN RBT_fixInsert_afterRotateLeft(
            RBT_rotateLeft(Push(s, Status("left-right-case", NULL, NULL)), parent), node)
     ELSE [s |-> RBT_fixInsert_leftLeft(s, node), node |-> node]

\* The mirror pass: parent is the right child of the grandparent.
RBT_fixInsertRight(s, node) ==
  LET parent == s.nodes[node].parent
      gp     == s.nodes[parent].parent
      uncle  == s.nodes[gp].left
  IN IF uncle # NULL /\ s.nodes[uncle].color = RED
     THEN [s |-> RBT_fixInsert_recolor(s, parent, uncle, gp), node |-> gp]
     ELSE IF node = s.nodes[parent].left
     THEN RBT_fixInsert_afterRotateRight(
            RBT_rotateRight(Push(s, Status("right-left-case", NULL, NULL)), parent), node)
     ELSE [s |-> RBT_fixInsert_rightRight(s, node), node |-> node]

\* The while loop of _fixInsert; RBT_fixInsertNext is the end of a pass with
\* its `if (node === this.root) break`.
RECURSIVE RBT_fixInsertLoop(_, _)
RECURSIVE RBT_fixInsertNext(_)
RBT_fixInsertNext(r) ==
  IF r.s.threw \/ r.node = r.s.root THEN r.s ELSE RBT_fixInsertLoop(r.s, r.node)

RBT_fixInsertLoop(s, node) ==
  LET parent == s.nodes[node].parent
  IN IF parent = NULL \/ s.nodes[parent].color # RED THEN s
     ELSE IF s.nodes[parent].parent = NULL THEN Throw(Pass(s, node))
     ELSE IF parent = s.nodes[s.nodes[parent].parent].left
     THEN RBT_fixInsertNext(RBT_fixInsertLeft(Pass(s, node), node))
     ELSE RBT_fixInsertNext(RBT_fixInsertRight(Pass(s, node), node))

\* "Root must always be black": the statement of _fixInsert after its loop.
RBT_fixInsert_root(s) ==
  IF s.threw THEN s
  ELSE IF s.nodes[s.root].color # BLACK
  THEN Push(Push(SetColor(s, s.root, BLACK), Recolor(s.root, BLACK)),
            Status("root-recolored", NULL, NULL))
  ELSE s

\* _fixInsert without its while loop.
RBT_fixInsert_noLoop(s, node) == RBT_fixInsert_root(s)

RBT_fixInsert(s, node) == RBT_fixInsert_root(RBT_fixInsertLoop(s, node))

\* The `while (current)` walk of insert.  Returns the call state, the last
\* node visited and whether the value was met.
RECURSIVE RBT_insertWalk(_, _, _, _)
RBT_insertWalk(s, current, parent, value) ==
  IF current = NULL THEN [s |-> s, parent |-> parent, dup |-> FALSE]
  ELSE IF value < s.nodes[current].value
  THEN RBT_insertWalk(Push(Push(s, Highlight(current, "visiting")),
                           Status("going-left", value, s.nodes[current].value)),
                      s.nodes[current].left, current, value)
  ELSE IF value > s.nodes[current].value
  THEN RBT_insertWalk(Push(Push(s, Highlight(current, "visiting")),
                           Status("going-right", value, s.nodes[current].value)),
                      s.nodes[current].right, current, value)
  ELSE [s |-> Push(Push(s, Highlight(current, "visiting")),
                   Status("already-exists", value, NULL)),
        parent |-> current, dup |-> TRUE]

\* insert: `new Node(value, this.nodeIdCounter); this.nodeIdCounter += 1`.
RBT_insert_newNode(s, value) ==
  [SetColor(Alloc(s, s.ctr, Node(value)), s.ctr, RED) EXCEPT !.ctr = @ + 1]

\* insert after the walk w has ended: return on a duplicate, else link newNode
\* under the last node visited and fix the colours.
RBT_insert_link(w, newNode, value) ==
  IF w.dup THEN w.s
  ELSE RBT_fixInsert(
         Push(Push(Push(
           IF value < w.s.nodes[w.parent].value
           THEN SetLeft(SetParent(w.s, newNode, w.parent), w.parent, newNode)
           ELSE SetRight(SetParent(w.s, newNode, w.parent), w.parent, newNode),
           Highlight(newNode, "inserted")), Recolor(newNode, RED)),
           Status("inserted-red", value, NULL)),
         newNode)

\* insert once newNode exists.
RBT_insert_place(s, newNode, value) ==
  IF s.root = NULL
  THEN Push(Push(Push(SetRoot(SetColor(s, newNode, BLACK), newNode),
                      Highlight(newNode, "inserted")), Recolor(newNode, BLACK)),
            Status("inserted-root", value, NULL))
  ELSE RBT_insert_link(RBT_insertWalk(s, s.root, NULL, value), newNode, value)

RBT_insert(t, value) ==
  RBT_insert_place(
    RBT_insert_newNode(Push(Start(t), Status("inserting", value, NULL)), value),
    t.nodeIdCounter, value)

RECURSIVE RBT_findNode(_, _, _)
RBT_findNode(nodes, node, value) ==
  IF node = NULL THEN NULL
  ELSE IF value = nodes[node].value THEN node
  ELSE IF value < nodes[node].value THEN RBT_findNode(nodes, nodes[node].left, value)
  ELSE RBT_findNode(nodes, nodes[node].right, value)

\* _findMin without the descent to the leftmost node.
RBT_findMin_noDescent(nodes, node) == node

RECURSIVE RBT_findMin(_, _)
RBT_findMin(nodes, node) ==
  IF nodes[node].left # NULL THEN RBT_findMin(nodes, nodes[node].left) ELSE node

\* `!n || n.color === BLACK`
IsBlackOrAbsent(s, n) == n = NULL \/ s.nodes[n].color = BLACK

\* `if (n) n.color = BLACK`
RBT_fixDelete_blacken(s, n) == IF n # NULL THEN SetColor(s, n, BLACK) ELSE s

\* `if (n) animations.push({ type: 'recolor-node', nodeId: n.id, color: BLACK })`
RBT_fixDelete_logBlack(s, n) == IF n # NULL THEN Push(s, Recolor(n, BLACK)) ELSE s

\* `animations.push({ type: 'recolor-node', nodeId: sibling.id, color: node.parent.color })`
RBT_fixDelete_logColorOf(s, sibling, parent) ==
  Push(s, Recolor(sibling, s.nodes[parent].color))

\* `node = this.root` at the end of a pass.
RBT_fixDelete_toRoot(s, node) == [s |-> s, node |-> IF s.threw THEN node ELSE s.root]

\* Left pass, first statement: a RED sibling becomes BLACK, the parent RED, and
\* the parent is rotated left.
RBT_fixDeleteLeft_redSibling(s, node) ==
  LET parent  == s.nodes[node].parent
      sibling == s.nodes[parent].right
  IN IF sibling = NULL THEN Throw(s)
     ELSE IF s.nodes[sibling].color = RED
     THEN RBT_rotateLeft(
            Push(Push(SetColor(SetColor(s, sibling, BLACK), parent, RED),
                      Recolor(sibling, BLACK)), Recolor(parent, RED)),
            parent)
     ELSE s

\* Left pass, `if (!sibling.right || sibling.right.color === BLACK)`: the
\* sibling's left child becomes BLACK, the sibling RED, and the sibling is
\* rotated right.
RBT_fixDeleteLeft_nearRed(s, node) ==
  LET sibling == s.nodes[s.nodes[node].parent].right
  IN IF IsBlackOrAbsent(s, s.nodes[sibling].right)
     THEN RBT_rotateRight(
            Push(RBT_fixDelete_logBlack(
                   SetColor(RBT_fixDelete_blacken(s, s.nodes[sibling].left), sibling, RED),
                   s.nodes[sibling].left),
                 Recolor(sibling, RED)),
            sibling)
     ELSE s

\* Left pass, last statements, sibling being node.parent.right again: the
\* sibling takes the parent's colour, parent and sibling.right become BLACK,
\* and the parent is rotated left.
RBT_fixDeleteLeft_farRed(s, node) ==
  LET parent  == s.nodes[node].parent
      sibling == s.nodes[parent].right
  IN IF s.threw THEN s
     ELSE IF sibling = NULL THEN Throw(s)
     ELSE RBT_rotateLeft(
            RBT_fixDelete_logBlack(
              Push(RBT_fixDelete_logColorOf(
                     RBT_fixDelete_blacken(
                       SetColor(SetColor(s, sibling, s.nodes[parent].color), parent, BLACK),
                       s.nodes[sibling].right),
                     sibling, parent),
                   Recolor(parent, BLACK)),
              s.nodes[sibling].right),
            parent)

\* The left pass with the cursor left where it is after the sibling has been
\* recoloured RED.
RBT_fixDeleteLeft_cases_stay(s, node) ==
  LET sibling == s.nodes[s.nodes[node].parent].right
  IN IF s.threw THEN [s |-> s, node |-> node]
     ELSE IF sibling = NULL THEN [s |-> Throw(s), node |-> node]
     ELSE IF IsBlackOrAbsent(s, s.nodes[sibling].left)
             /\ IsBlackOrAbsent(s, s.nodes[sibling].right)
     THEN [s |-> Push(SetColor(s, sibling, RED), Recolor(sibling, RED)),
           node |-> node]
     ELSE RBT_fixDelete_toRoot(
            RBT_fixDeleteLeft_farRed(RBT_fixDeleteLeft_nearRed(s, node), node), node)

\* Left pass after its first statement.
RBT_fixDeleteLeft_cases(s, node) ==
  LET sibling == s.nodes[s.nodes[node].parent].right
  IN IF s.threw THEN [s |-> s, node |-> node]
     ELSE IF sibling = NULL THEN [s |-> Throw(s), node |-> node]
     ELSE IF IsBlackOrAbsent(s, s.nodes[sibling].left)
             /\ IsBlackOrAbsent(s, s.nodes[sibling].right)
     THEN [s |-> Push(SetColor(s, sibling, RED), Recolor(sibling, RED)),
           node |-> s.nodes[node].parent]
     ELSE RBT_fixDelete_toRoot(
            RBT_fixDeleteLeft_farRed(RBT_fixDeleteLeft_nearRed(s, node), node), node)

\* One pass of the body of the while loop of _fixDelete, node being the left
\* child of its parent.  Returns the call state and the cursor.
RBT_fixDeleteLeft(s, node) ==
  RBT_fixDeleteLeft_cases(RBT_fixDeleteLeft_redSibling(s, node), node)

\* The mirror pass: node is the right child of its parent.
RBT_fixDeleteRight_redSibling(s, node) ==
  LET parent  == s.nodes[node].parent
      sibling == s.nodes[parent].left
  IN IF sibling = NULL THEN Throw(s)
     ELSE IF s.nodes[sibling].color = RED
     THEN RBT_rotateRight(
            Push(Push(SetColor(SetColor(s, sibling, BLACK), parent, RED),
                      Recolor(sibling, BLACK)), Recolor(parent, RED)),
            parent)
     ELSE s

RBT_fixDeleteRight_nearRed(s, node) ==
  LET sibling == s.nodes[s.nodes[node].parent].left
  IN IF IsBlackOrAbsent(s, s.nodes[sibling].left)
     THEN RBT_rotateLeft(
            Push(RBT_fixDelete_logBlack(
                   SetColor(RBT_fixDelete_blacken(s, s.nodes[sibling].right), sibling, RED),
                   s.nodes[sibling].right),
                 Recolor(sibling, RED)),
            sibling)
     ELSE s

RBT_fixDeleteRight_farRed(s, node) ==
  LET parent  == s.nodes[node].parent
      sibling == s.nodes[parent].left
  IN IF s.threw THEN s
     ELSE IF sibling = NULL THEN Throw(s)
     ELSE RBT_rotateRight(
            RBT_fixDelete_logBlack(
              Push(RBT_fixDelete_logColorOf(
                     RBT_fixDelete_blacken(
                       SetColor(SetColor(s, sibling, s.nodes[parent].color), parent, BLACK),
                       s.nodes[sibling].left),
                     sibling, parent),
                   Recolor(parent, BLACK)),
              s.nodes[sibling].left),
            parent)

RBT_fixDeleteRight_cases(s, node) ==
  LET sibling == s.nodes[s.nodes[node].parent].left
  IN IF s.threw THEN [s |-> s, node |-> node]
     ELSE IF sibling = NULL THEN [s |-> Throw(s), node |-> node]
     ELSE IF IsBlackOrAbsent(s, s.nodes[sibling].right)
             /\ IsBlackOrAbsent(s, s.nodes[sibling].left)
     THEN [s |-> Push(SetColor(s, sibling, RED), Recolor(sibling, RED)),
           node |-> s.nodes[node].parent]
     ELSE RBT_fixDelete_toRoot(
            RBT_fixDeleteRight_farRed(RBT_fixDeleteRight_nearRed(s, node), node), node)

RBT_fixDeleteRight(s, node) ==
  RBT_fixDeleteRight_cases(RBT_fixDeleteRight_redSibling(s, node), node)

\* The while loop of _fixDelete; RBT_fixDeleteNext is the end of a pass.
RECURSIVE RBT_fixDeleteLoop(_, _)
RECURSIVE RBT_fixDeleteNext(_)
RBT_fixDeleteNext(r) ==
  IF r.s.threw THEN r ELSE RBT_fixDeleteLoop(r.s, r.node)

RBT_fixDeleteLoop(s, node) ==
  IF node = s.root \/ s.nodes[node].color # BLACK THEN [s |-> s, node |-> node]
  ELSE IF s.nodes[node].parent = NULL THEN [s |-> Throw(Pass(s, node)), node |-> node]
  ELSE IF node = s.nodes[s.nodes[node].parent].left
  THEN RBT_fixDeleteNext(RBT_fixDeleteLeft(Pass(s, node), node))
  ELSE RBT_fixDeleteNext(RBT_fixDeleteRight(Pass(s, node), node))

\* `if (node) node.color = BLACK`: the statement of _fixDelete after its loop.
RBT_fixDelete_end(r) ==
  IF r.s.threw THEN r.s
  ELSE IF r.node # NULL THEN SetColor(r.s, r.node, BLACK)
  ELSE r.s

\* _fixDelete without the closing `if (node) node.color = BLACK`.
RBT_fixDelete_noBlacken(s, node) == RBT_fixDeleteLoop(s, node).s

RBT_fixDelete(s, node) == RBT_fixDelete_end(RBT_fixDeleteLoop(s, node))

\* _deleteNode: the node that is unlinked.
RBT_deleteNode_replacement(s, node) ==
  IF s.nodes[node].left = NULL \/ s.nodes[node].right = NULL
  THEN node
  ELSE RBT_findMin(s.nodes, s.nodes[node].right)

\* `replacement.left ? replacement.left : replacement.right`
RBT_deleteNode_child(s, replacement) ==
  IF s.nodes[replacement].left # NULL
  THEN s.nodes[replacement].left
  ELSE s.nodes[replacement].right

\* `if (replacementChild) replacementChild.parent = replacement.parent`
RBT_deleteNode_reparent(s, replacement, replacementChild) ==
  IF replacementChild # NULL
  THEN SetParent(s, replacementChild, s.nodes[replacement].parent)
  ELSE s

\* The link of replacementChild in the place of replacement without
\* `this.root = replacementChild` for a replacement that has no parent.
RBT_deleteNode_unlink_keepRoot(s, replacement, replacementChild) ==
  LET rp == s.nodes[replacement].parent
  IN IF rp = NULL THEN s
     ELSE IF replacement = s.nodes[rp].left THEN SetLeft(s, rp, replacementChild)
     ELSE SetRight(s, rp, replacementChild)

\* The link of replacementChild in the place of replacement.
RBT_deleteNode_unlink(s, replacement, replacementChild) ==
  LET rp == s.nodes[replacement].parent
  IN IF rp = NULL THEN SetRoot(s, replacementChild)
     ELSE IF replacement = s.nodes[rp].left THEN SetLeft(s, rp, replacementChild)
     ELSE SetRight(s, rp, replacementChild)

\* The splice without `node.value = replacement.value`.
RBT_deleteNode_copy_statusOnly(s, node, replacement) ==
  IF replacement # node
  THEN Push(s, Status("replaced-with-successor", s.nodes[replacement].value, NULL))
  ELSE s

\* `if (replacement !== node) { node.value = replacement.value; ... }`
RBT_deleteNode_copy(s, node, replacement) ==
  IF replacement # node
  THEN Push(SetValue(s, node, s.nodes[replacement].value),
            Status("replaced-with-successor", s.nodes[replacement].value, NULL))
  ELSE s

\* `if (replacement.color === BLACK && replacementChild) this._fixDelete(...)`
RBT_deleteNode_fix(s, replacement, replacementChild) ==
  IF s.nodes[replacement].color = BLACK /\ replacementChild # NULL
  THEN RBT_fixDelete(s, replacementChild)
  ELSE s

RBT_deleteNode_splice(s, node, replacement, replacementChild) ==
  RBT_deleteNode_fix(
    RBT_deleteNode_copy(
      RBT_deleteNode_unlink(
        RBT_deleteNode_reparent(s, replacement, replacementChild),
        replacement, replacementChild),
      node, replacement),
    replacement, replacementChild)

RBT_deleteNode_with(s, node, replacement) ==
  RBT_deleteNode_splice(s, node, replacement, RBT_deleteNode_child(s, replacement))

RBT_deleteNode(s, node) ==
  RBT_deleteNode_with(s, node, RBT_deleteNode_replacement(s, node))

\* delete without the "not found" status step for a value that is not stored.
RBT_delete_found_silent(s, node, value) ==
  IF node = NULL THEN s
  ELSE RBT_deleteNode(Push(s, Highlight(node, "found")), node)

\* delete once _findNode has returned node.
RBT_delete_found(s, node, value) ==
  IF node = NULL THEN Push(s, Status("not-found", value, NULL))
  ELSE RBT_deleteNode(Push(s, Highlight(node, "found")), node)

RBT_delete(t, value) ==
  RBT_delete_found(Push(Start(t), Status("deleting", value, NULL)),
                   RBT_findNode(t.nodes, t.root, value), value)

\* _searchNode: returns the call state and the boolean _searchNode returns.
RECURSIVE RBT_searchNode(_, _, _)
RBT_searchNode(s, node, value) ==
  IF node = NULL
  THEN [s |-> Push(s, Status("not-found", value, NULL)), ret |-> FALSE]
  ELSE IF value = s.nodes[node].value
  THEN [s |-> Push(Push(Push(s, Highlight(node, "visiting")),
                        Highlight(node, "found")), Status("found", value, NULL)),
        ret |-> TRUE]
  ELSE IF value < s.nodes[node].value
  THEN RBT_searchNode(Push(Push(s, Highlight(node, "visiting")),
                           Status("going-left", value, s.nodes[node].value)),
                      s.nodes[node].left, value)
  ELSE RBT_searchNode(Push(Push(s, Highlight(node, "visiting")),
                           Status("going-right", value, s.nodes[node].value)),
                      s.nodes[node].right, value)

\* search returns { animations }: the object has no `found` field, so reading
\* it gives undefined.
RBT_search(t, value) ==
  [s |-> RBT_searchNode(Push(Start(t), Status("searching", value, NULL)),
                        t.root, value).s,
   found |-> "undefined"]


\* generateId without `this.nodeIdCounter += 1`.
BST_newNode_sameCounter(s, value) == Alloc(s, s.ctr, Node(value))

\* ======================================================== BST
\* `new Node(value, this.generateId())`: the node takes the id the counter
\* holds and the counter moves on.
BST_newNode(s, value) ==
  [Alloc(s, s.ctr, Node(value)) EXCEPT !.ctr = @ + 1]

\* The `while (current)` loop of insert.
RECURSIVE BST_insertLoop(_, _, _)
BST_insertLoop(s, current, value) ==
  IF value < s.nodes[current].value
  THEN IF s.nodes[current].left = NULL
       THEN Push(SetParent(SetLeft(BST_newNode(s, value), current, s.ctr), s.ctr, current),
                 Status("inserted", value, NULL))
       ELSE BST_insertLoop(s, s.nodes[current].left, value)
  ELSE IF value > s.nodes[current].value
  THEN IF s.nodes[current].right = NULL
       THEN Push(SetParent(SetRight(BST_newNode(s, value), current, s.ctr), s.ctr, current),
                 Status("inserted", value, NULL))
       ELSE BST_insertLoop(s, s.nodes[current].right, value)
  ELSE Push(s, Status("already-exists", value, NULL))

BST_insert(t, value) ==
  IF t.root = NULL
  THEN Push(SetRoot(BST_newNode(Start(t), value), t.nodeIdCounter),
            Status("inserted-root", value, NULL))
  ELSE BST_insertLoop(Start(t), t.root, value)

RECURSIVE BST_searchLoop(_, _, _)
BST_searchLoop(s, current, value) ==
  IF current = NULL
  THEN [s |-> Push(s, Status("not-found", value, NULL)), found |-> "false"]
  ELSE IF value = s.nodes[current].value
  THEN [s |-> Push(Push(s, Highlight(current, "found")), Status("found", value, NULL)),
        found |-> "true"]
  ELSE IF value < s.nodes[current].value
  THEN BST_searchLoop(s, s.nodes[current].left, value)
  ELSE BST_searchLoop(s, s.nodes[current].right, value)

BST_search(t, value) ==
  BST_searchLoop(Push(Start(t), Status("searching", value, NULL)), t.root, value)

RECURSIVE BST_findMin(_, _)
BST_findMin(nodes, node) ==
  IF nodes[node].left # NULL THEN BST_findMin(nodes, nodes[node].left) ELSE node

\* `targetNode.left = result.node; if (targetNode.left) targetNode.left.parent
\* = targetNode`, r being what the recursive call returned.
BST_deleteNode_setLeft(r, node) ==
  [s |-> IF r.node # NULL
         THEN SetParent(SetLeft(r.s, node, r.node), r.node, node)
         ELSE SetLeft(r.s, node, r.node),
   node |-> node]

\* `targetNode.right = result.node; if (targetNode.right)
\* targetNode.right.parent = targetNode`
BST_deleteNode_setRight(r, node) ==
  [s |-> IF r.node # NULL
         THEN SetParent(SetRight(r.s, node, r.node), r.node, node)
         ELSE SetRight(r.s, node, r.node),
   node |-> node]

\* _deleteNode returns { node }: the call state and that node.
RECURSIVE BST_deleteNode(_, _, _)
BST_deleteNode(s, node, value) ==
  IF node = NULL
  THEN [s |-> Push(s, Status("not-found-for-deletion", value, NULL)), node |-> NULL]
  ELSE IF value < s.nodes[node].value
  THEN BST_deleteNode_setLeft(BST_deleteNode(s, s.nodes[node].left, value), node)
  ELSE IF value > s.nodes[node].value
  THEN BST_deleteNode_setRight(BST_deleteNode(s, s.nodes[node].right, value), node)
  ELSE
    LET l == s.nodes[node].left
        r == s.nodes[node].right
        minNode == BST_findMin(s.nodes, s.nodes[node].right)
    IN IF l = NULL /\ r = NULL
       THEN [s |-> Push(Push(s, Highlight(node, "current")),
                        Status("deleting-leaf", value, NULL)),
             node |-> NULL]
       ELSE IF l = NULL
       THEN [s |-> SetParent(Push(Push(s, Highlight(node, "current")),
                                  Status("deleting-only-right", value, NULL)),
                             r, s.nodes[node].parent),
             node |-> r]
       ELSE IF r = NULL
       THEN [s |-> SetParent(Push(Push(s, Highlight(node, "current")),
                                  Status("deleting-only-left", value, NULL)),
                             l, s.nodes[node].parent),
             node |-> l]
       ELSE BST_deleteNode_setRight(
              BST_deleteNode(
                SetValue(Push(Push(Push(s, Highlight(node, "current")),
                                   Highlight(minNode, "pivot")),
                              Status("replacing", value, s.nodes[minNode].value)),
                         node, s.nodes[minNode].value),
                r, s.nodes[minNode].value),
              node)

\* The end of delete without `this.root = result.node`.
BST_delete_return_keepRoot(r, value) ==
  Push(r.s, Status("deleted", value, NULL))

\* `this.root = result.node` and the closing status step of delete.
BST_delete_return(r, value) ==
  Push(SetRoot(r.s, r.node), Status("deleted", value, NULL))

BST_delete(t, value) ==
  BST_delete_return(
    BST_deleteNode(Push(Start(t), Status("deleting", value, NULL)), t.root, value),
    value)

\* ======================================================== AVL tree
AVL_getHeight(s, node) == IF node # NULL THEN s.nodes[node].height ELSE 0

AVL_getBalanceFactor(s, node) ==
  IF node # NULL
  THEN AVL_getHeight(s, s.nodes[node].left) - AVL_getHeight(s, s.nodes[node].right)
  ELSE 0

Max(a, b) == IF a >= b THEN a ELSE b

\* updateHeight patching the stored height by one instead of recomputing it.
AVL_updateHeight_patch(s, node) ==
  IF node # NULL THEN SetHeight(s, node, s.nodes[node].height + 1) ELSE s

AVL_updateHeight(s, node) ==
  IF node # NULL
  THEN SetHeight(s, node, 1 + Max(AVL_getHeight(s, s.nodes[node].left),
                                  AVL_getHeight(s, s.nodes[node].right)))
  ELSE s

\* The parent-pointer statements of a rotation that lifts `up` over `down`:
\* `if (T2) T2.parent = down; up.parent = down.parent; down.parent = up`.
AVL_rotate_parents(s, down, up, T2) ==
  SetParent(
    SetParent(IF T2 # NULL THEN SetParent(s, T2, down) ELSE s,
              up, s.nodes[down].parent),
    down, up)

\* rotateRight returns x, the new root of the subtree: [s, node].
AVL_rotateRight(s, y) ==
  LET x == s.nodes[y].left
  IN IF x = NULL
     THEN [s |-> Throw(Push(s, Status("right-rotation", s.nodes[y].value, NULL))),
           node |-> NULL]
     ELSE [s |-> Push(
                   AVL_updateHeight(
                     AVL_updateHeight(
                       AVL_rotate_parents(
                         SetLeft(SetRight(Push(s, Status("right-rotation",
                                                         s.nodes[y].value, NULL)),
                                          x, y),
                                 y, s.nodes[x].right),
                         y, x, s.nodes[x].right),
                       y),
                     x),
                   Highlight(x, "pivot")),
           node |-> x]

AVL_rotateLeft(s, x) ==
  LET y == s.nodes[x].right
  IN IF y = NULL
     THEN [s |-> Throw(Push(s, Status("left-rotation", s.nodes[x].value, NULL))),
           node |-> NULL]
     ELSE [s |-> Push(
                   AVL_updateHeight(
                     AVL_updateHeight(
                       AVL_rotate_parents(
                         SetRight(SetLeft(Push(s, Status("left-rotation",
                                                         s.nodes[x].value, NULL)),
                                          y, x),
                                  x, s.nodes[y].left),
                         x, y, s.nodes[y].left),
                       x),
                     y),
                   Highlight(y, "pivot")),
           node |-> y]

\* `node.left = <a>; return this.rotateRight(node, animations)`, a being what
\* rotateLeft(node.left) returned.
AVL_rotateRight_under(a, node) ==
  IF a.s.threw THEN a ELSE AVL_rotateRight(SetLeft(a.s, node, a.node), node)

\* `node.right = <a>; return this.rotateLeft(node, animations)`, a being what
\* rotateRight(node.right) returned.
AVL_rotateLeft_under(a, node) ==
  IF a.s.threw THEN a ELSE AVL_rotateLeft(SetRight(a.s, node, a.node), node)

\* The Left-Right case handled as the Left-Left case: one right rotation.
AVL_rotateLeftRight_single(s, node) == AVL_rotateRight(s, node)

\* `node.left = this.rotateLeft(node.left, animations); return this.rotateRight(node, animations)`
AVL_rotateLeftRight(s, node) ==
  AVL_rotateRight_under(AVL_rotateLeft(s, s.nodes[node].left), node)

\* `node.right = this.rotateRight(node.right, animations); return this.rotateLeft(node, animations)`
AVL_rotateRightLeft(s, node) ==
  AVL_rotateLeft_under(AVL_rotateRight(s, s.nodes[node].right), node)

\* The "Balance factor at ..." status step.
AVL_logBalance(s, node) ==
  Push(s, Status("balance-factor", s.nodes[node].value, AVL_getBalanceFactor(s, node)))

\* _insertNode without its four rotation cases.
AVL_insertCases_none(s, node, value) == [s |-> s, node |-> node]

\* The four insertion cases of _insertNode.
AVL_insertCases(s, node, value) ==
  LET balance == AVL_getBalanceFactor(s, node)
      l  == s.nodes[node].left
      r  == s.nodes[node].right
  IN IF balance > 1 /\ value < s.nodes[l].value
     THEN AVL_rotateRight(Push(s, Status("left-left-case", s.nodes[node].value, NULL)), node)
     ELSE IF balance < -1 /\ value > s.nodes[r].value
     THEN AVL_rotateLeft(Push(s, Status("right-right-case", s.nodes[node].value, NULL)), node)
     ELSE IF balance > 1 /\ value > s.nodes[l].value
     THEN AVL_rotateLeftRight(Push(s, Status("left-right-case", s.nodes[node].value, NULL)), node)
     ELSE IF balance < -1 /\ value < s.nodes[r].value
     THEN AVL_rotateRightLeft(Push(s, Status("right-left-case", s.nodes[node].value, NULL)), node)
     ELSE [s |-> s, node |-> node]

\* The part of _insertNode after the recursive call with the height update and
\* the balance factor only: no rotation.
AVL_insertRebalance_noRotate(s, node, value) ==
  [s |-> AVL_logBalance(AVL_updateHeight(s, node), node), node |-> node]

\* The part of _insertNode after the recursive call: update the height, compute
\* the balance factor and rotate by the four insertion cases.
AVL_insertRebalance(s, node, value) ==
  AVL_insertCases(AVL_logBalance(AVL_updateHeight(s, node), node), node, value)

\* `node.left = <r>` and the rest of _insertNode, r being what the recursive
\* call returned.
AVL_insertNode_setLeft(r, node, value) ==
  IF r.s.threw THEN r ELSE AVL_insertRebalance(SetLeft(r.s, node, r.node), node, value)

\* `node.right = <r>` and the rest of _insertNode.
AVL_insertNode_setRight(r, node, value) ==
  IF r.s.threw THEN r ELSE AVL_insertRebalance(SetRight(r.s, node, r.node), node, value)

\* `new Node(value, this.nodeIdCounter++)` with its parent and height.
AVL_newNode(s, value, parent) ==
  SetHeight(SetParent([Alloc(s, s.ctr, Node(value)) EXCEPT !.ctr = @ + 1],
                      s.ctr, parent),
            s.ctr, 1)

\* _insertNode returns the root of the subtree: [s, node].
RECURSIVE AVL_insertNode(_, _, _, _)
AVL_insertNode(s, node, value, parent) ==
  IF node = NULL
  THEN [s |-> Push(Push(AVL_newNode(s, value, parent), Highlight(s.ctr, "inserted")),
                   Status("inserted", value, NULL)),
        node |-> s.ctr]
  ELSE IF value < s.nodes[node].value
  THEN AVL_insertNode_setLeft(
         AVL_insertNode(Push(Push(s, Highlight(node, "visiting")),
                             Status("going-left", value, s.nodes[node].value)),
                        s.nodes[node].left, value, node),
         node, value)
  ELSE IF value > s.nodes[node].value
  THEN AVL_insertNode_setRight(
         AVL_insertNode(Push(Push(s, Highlight(node, "visiting")),
                             Status("going-right", value, s.nodes[node].value)),
                        s.nodes[node].right, value, node),
         node, value)
  ELSE [s |-> Push(Push(s, Highlight(node, "visiting")),
                   Status("already-exists", value, NULL)),
        node |-> node]

\* `this.root = <r>`, r being what _insertNode or _deleteNode returned.
AVL_setRoot(r) == IF r.s.threw THEN r.s ELSE SetRoot(r.s, r.node)

AVL_insert(t, value) ==
  AVL_setRoot(AVL_insertNode(Push(Start(t), Status("inserting", value, NULL)),
                             t.root, value, NULL))

RECURSIVE AVL_findMin(_, _)
AVL_findMin(nodes, node) ==
  IF nodes[node].left # NULL THEN AVL_findMin(nodes, nodes[node].left) ELSE node

\* The four deletion cases of _deleteNode.
AVL_deleteCases(s, node) ==
  LET balance == AVL_getBalanceFactor(s, node)
      l  == s.nodes[node].left
      r  == s.nodes[node].right
  IN IF balance > 1 /\ AVL_getBalanceFactor(s, l) >= 0
     THEN AVL_rotateRight(s, node)
     ELSE IF balance > 1 /\ AVL_getBalanceFactor(s, l) < 0
     THEN AVL_rotateLeftRight(s, node)
     ELSE IF balance < -1 /\ AVL_getBalanceFactor(s, r) <= 0
     THEN AVL_rotateLeft(s, node)
     ELSE IF balance < -1 /\ AVL_getBalanceFactor(s, r) > 0
     THEN AVL_rotateRightLeft(s, node)
     ELSE [s |-> s, node |-> node]

\* The part of _deleteNode after the removal: update the height, compute the
\* balance factor and rotate by the balance factor of the child.
AVL_deleteRebalance(s, node) ==
  AVL_deleteCases(AVL_logBalance(AVL_updateHeight(s, node), node), node)

\* `node.left = <r>` and the rest of _deleteNode, r being what the recursive
\* call returned.
AVL_deleteNode_setLeft(r, node) ==
  IF r.s.threw THEN r ELSE AVL_deleteRebalance(SetLeft(r.s, node, r.node), node)

\* `node.right = <r>` and the rest of _deleteNode.
AVL_deleteNode_setRight(r, node) ==
  IF r.s.threw THEN r ELSE AVL_deleteRebalance(SetRight(r.s, node, r.node), node)

\* "Node with only one child or no child": `if (temp) temp.parent =
\* node.parent; return temp`.
AVL_deleteNode_oneChild(s, node, temp) ==
  [s |-> IF temp # NULL THEN SetParent(s, temp, s.nodes[node].parent) ELSE s,
   node |-> temp]

\* _deleteNode returns the root of the subtree: [s, node].
RECURSIVE AVL_deleteNode(_, _, _)
AVL_deleteNode(s, node, value) ==
  IF node = NULL
  THEN [s |-> Push(s, Status("not-found", value, NULL)), node |-> NULL]
  ELSE IF value < s.nodes[node].value
  THEN AVL_deleteNode_setLeft(
         AVL_deleteNode(Push(s, Highlight(node, "visiting")), s.nodes[node].left, value),
         node)
  ELSE IF value > s.nodes[node].value
  THEN AVL_deleteNode_setRight(
         AVL_deleteNode(Push(s, Highlight(node, "visiting")), s.nodes[node].right, value),
         node)
  ELSE IF s.nodes[node].left = NULL \/ s.nodes[node].right = NULL
  THEN AVL_deleteNode_oneChild(
         Push(Push(s, Highlight(node, "visiting")), Highlight(node, "found")),
         node,
         IF s.nodes[node].left # NULL THEN s.nodes[node].left ELSE s.nodes[node].right)
  ELSE
    LET temp == AVL_findMin(s.nodes, s.nodes[node].right)
    IN AVL_deleteNode_setRight(
         AVL_deleteNode(
           SetValue(Push(Push(Push(s, Highlight(node, "visiting")),
                              Highlight(node, "found")),
                         Highlight(temp, "pivot")),
                    node, s.nodes[temp].value),
           s.nodes[node].right, s.nodes[temp].value),
         node)

AVL_delete(t, value) ==
  AVL_setRoot(AVL_deleteNode(Push(Start(t), Status("deleting", value, NULL)),
                             t.root, value))

\* _searchNode: returns the call state and the boolean _searchNode returns.
RECURSIVE AVL_searchNode(_, _, _)
AVL_searchNode(s, node, value) ==
  IF node = NULL
  THEN [s |-> Push(s, Status("not-found", value, NULL)), ret |-> FALSE]
  ELSE IF value = s.nodes[node].value
  THEN [s |-> Push(Push(Push(s, Highlight(node, "visiting")),
                        Highlight(node, "found")), Status("found", value, NULL)),
        ret |-> TRUE]
  ELSE IF value < s.nodes[node].value
  THEN AVL_searchNode(Push(Push(s, Highlight(node, "visiting")),
                           Status("going-left", value, s.nodes[node].value)),
                      s.nodes[node].left, value)
  ELSE AVL_searchNode(Push(Push(s, Highlight(node, "visiting")),
                           Status("going-right", value, s.nodes[node].value)),
                      s.nodes[node].right, value)

\* search returns { animations }: the object has no `found` field, so reading
\* it gives undefined.
AVL_search(t, value) ==
  [s |-> AVL_searchNode(Push(Start(t), Status("searching", value, NULL)),
                        t.root, value).s,
   found |-> "undefined"]

\* ======================================================== traversal result
\* The `result` array that _inorderHelper fills (the helper has the same code in
\* the three engines).
RECURSIVE InorderResult(_, _)
InorderResult(nodes, node) ==
  IF node = NULL THEN <<>>
  ELSE InorderResult(nodes, nodes[node].left) \o <<nodes[node].value>>
       \o InorderResult(nodes, nodes[node].right)

\* ======================================================== public calls
\* The call `op(value)` on tree object t of engine ty: the call state it ends
\* in and the `found` field of the object it returns.
Call(ty, op, t, value) ==
  IF ty = "RBTree"
  THEN IF op = "insert" THEN [s |-> RBT_insert(t, value), found |-> "undefined"]
       ELSE IF op = "delete" THEN [s |-> RBT_delete(t, value), found |-> "undefined"]
       ELSE RBT_search(t, value)
  ELSE IF ty = "AVL"
  THEN IF op = "insert" THEN [s |-> AVL_insert(t, value), found |-> "undefined"]
       ELSE IF op = "delete" THEN [s |-> AVL_delete(t, value), found |-> "undefined"]
       ELSE AVL_search(t, value)
  ELSE IF op = "insert" THEN [s |-> BST_insert(t, value), found |-> "undefined"]
       ELSE IF op = "delete" THEN [s |-> BST_delete(t, value), found |-> "undefined"]
       ELSE BST_search(t, value)

\* The model state after the call `op(value)` made in model state st has
\* returned r.
Returned(st, op, value, r) ==
  [treeType   |-> st.treeType,
   tree       |-> Finish(r.s),
   pre        |-> st.tree,
   stored     |-> IF op = "insert" THEN st.stored \cup {value}
                  ELSE IF op = "delete" THEN st.stored \ {value}
                  ELSE st.stored,
   lastOp     |-> [op |-> op, value |-> value],
   animations |-> r.s.anims,
   found      |-> r.found,
   threw      |-> r.s.threw]

After(st, op, value) == Returned(st, op, value, Call(st.treeType, op, st.tree, value))

Constructed(ty) ==
  [treeType |-> ty, tree |-> EmptyTree, pre |-> EmptyTree, stored |-> {},
   lastOp |-> [op |-> "none", value |-> NULL], animations |-> <<>>,
   found |-> "undefined", threw |-> FALSE]

Now ==
  [treeType |-> treeType, tree |-> tree, pre |-> pre, stored |-> stored,
   lastOp |-> lastOp, animations |-> animations, found |-> found, threw |-> threw]

Becomes(st) ==
  /\ treeType' = st.treeType
  /\ tree' = st.tree
  /\ pre' = st.pre
  /\ stored' = st.stored
  /\ lastOp' = st.lastOp
  /\ animations' = st.animations
  /\ found' = st.found
  /\ threw' = st.threw

Do(op, value) == Becomes(After(Now, op, value))

\* The value of treeBeforeAnimation while it is null.
NoSnapshot == [treeType |-> "none", tree |-> NoCopy, shares |-> "nothing"]

\* The initial values of the useState and useRef calls of App, but for
\* treeType and treeInstance.
AppMounted ==
  /\ isAnimating = FALSE
  /\ animationQueue = <<>>
  /\ currentAnimationIndex = 0
  /\ undoStack = <<>>
  /\ redoStack = <<>>
  /\ treeBeforeAnimation = NoSnapshot
  /\ events = <<>>
  /\ blocked = "none"
  /\ input = [form |-> "none", text |-> <<>>, outcome |-> "none"]

Init ==
  \E ty \in TreeTypes :
    /\ treeType = ty
    /\ tree = EmptyTree
    /\ pre = EmptyTree
    /\ stored = {}
    /\ lastOp = [op |-> "none", value |-> NULL]
    /\ animations = <<>>
    /\ found = "undefined"
    /\ threw = FALSE
    /\ result = <<>>
    /\ copy = NoCopy
    /\ aliased = FALSE
    /\ selectedType = ty
    /\ AppMounted

\* A call that ended with a TypeError leaves the instance half-updated; the
\* instance is not used again.
Insert(v) == ~threw /\ tree.nodeIdCounter < MaxIds /\ Do("insert", v) /\ NoResult
Delete(v) == ~threw /\ Do("delete", v) /\ NoResult
Search(v) == ~threw /\ Do("search", v) /\ NoResult

Next ==
  \/ \E v \in Values : Insert(v)
  \/ \E v \in Values : Delete(v)
  \/ \E v \in Values : Search(v)

Spec == Init /\ [][Next]_vars

\* ------------------------------------------------------------------------
\* A longer run of one Red-Black tree: the tree has already served the calls
\* insert(1), insert(2), insert(3), insert(4), delete(3), delete(4).
DeepPrefix ==
  << <<"insert", 1>>, <<"insert", 2>>, <<"insert", 3>>, <<"insert", 4>>,
     <<"delete", 3>>, <<"delete", 4>> >>

RECURSIVE Replay(_, _)
Replay(st, calls) ==
  IF calls = <<>> THEN st
  ELSE Replay(After(st, Head(calls)[1], Head(calls)[2]), Tail(calls))

DeepStart == Replay(Constructed("RBTree"), DeepPrefix)

DeepInit ==
  /\ treeType = DeepStart.treeType
  /\ tree = DeepStart.tree
  /\ pre = DeepStart.pre
  /\ stored = DeepStart.stored
  /\ lastOp = DeepStart.lastOp
  /\ animations = DeepStart.animations
  /\ found = DeepStart.found
  /\ threw = DeepStart.threw
  /\ result = <<>>
  /\ copy = NoCopy
  /\ aliased = FALSE
  /\ selectedType = DeepStart.treeType
  /\ AppMounted

DeepInsert(v) ==
  ~threw /\ tree.nodeIdCounter < DeepMaxIds /\ Do("insert", v) /\ NoResult
DeepDelete(v) == ~threw /\ Do("delete", v) /\ NoResult

DeepNext ==
  \/ \E v \in DeepValues : DeepInsert(v)
  \/ \E v \in DeepValues : DeepDelete(v)

SpecDeep == DeepInit /\ [][DeepNext]_vars


\* ======================================================== properties
TreeValues(t) == {t.nodes[i].value : i \in DOMAIN t.nodes}

NodeOf(t, v) == CHOOSE i \in DOMAIN t.nodes : t.nodes[i].value = v

TwoChildren(t, i) == t.nodes[i].left # NULL /\ t.nodes[i].right # NULL

IsAscending(seq) == \A i \in 1..(Len(seq) - 1) : seq[i] < seq[i + 1]

\* The ascending list of a finite set of integers.
RECURSIVE AscendingList(_)
AscendingList(S) ==
  IF S = {} THEN <<>>
  ELSE LET m == CHOOSE x \in S : \A y \in S : x <= y
       IN <<m>> \o AscendingList(S \ {m})

HasStep(steps, step) == \E i \in 1..Len(steps) : steps[i] = step

HasRecolor(steps, color) ==
  \E i \in 1..Len(steps) : steps[i].type = "recolor-node" /\ steps[i].tag = color

HasRotation(steps) ==
  \E i \in 1..Len(steps) :
    steps[i].type = "update-status" /\ steps[i].tag \in {"left-rotation", "right-rotation"}

\* Number of nodes on the longest path from node n down to a leaf.
RECURSIVE TrueHeight(_, _)
TrueHeight(nodes, n) ==
  IF n = NULL THEN 0
  ELSE 1 + Max(TrueHeight(nodes, nodes[n].left), TrueHeight(nodes, nodes[n].right))

\* Number of BLACK nodes on every path from node n to an absent child, or -1
\* when two such paths differ.
RECURSIVE BlackHeight(_, _)
BlackHeight(nodes, n) ==
  IF n = NULL THEN 0
  ELSE LET l == BlackHeight(nodes, nodes[n].left)
           r == BlackHeight(nodes, nodes[n].right)
       IN IF l = -1 \/ r = -1 \/ l # r THEN -1
          ELSE l + (IF nodes[n].color = BLACK THEN 1 ELSE 0)

OrderedAt(t, n) ==
  /\ \A m \in Reach(t.nodes, t.nodes[n].left) : t.nodes[m].value < t.nodes[n].value
  /\ \A m \in Reach(t.nodes, t.nodes[n].right) : t.nodes[m].value > t.nodes[n].value

\* C1: in each engine, after any sequence of insert and delete calls from the
\* empty tree, every node's value is greater than every value of its left
\* subtree and less than every value of its right subtree, and the result of
\* the inorder traversal is ascending.
C1_BSTOrder ==
  ~threw =>
    /\ \A n \in DOMAIN tree.nodes : OrderedAt(tree, n)
    /\ IsAscending(InorderResult(tree.nodes, tree.root))

\* A delete has removed a value whose node had two children and a parent.
C1_Witness ==
  /\ ~threw
  /\ lastOp.op = "delete"
  /\ lastOp.value \in TreeValues(pre)
  /\ TwoChildren(pre, NodeOf(pre, lastOp.value))
  /\ Cardinality(DOMAIN tree.nodes) >= 3

\* C2: in each engine the result of the inorder traversal is the ascending
\* list of the set obtained by the same calls read as set-add and set-remove.
C2_SetSemantics ==
  ~threw => InorderResult(tree.nodes, tree.root) = AscendingList(stored)

\* A BST delete has removed a stored value and at least two values remain.
C2_Witness ==
  /\ ~threw
  /\ treeType = "BST"
  /\ lastOp.op = "delete"
  /\ lastOp.value \in TreeValues(pre)
  /\ Cardinality(stored) >= 2
  /\ Len(InorderResult(tree.nodes, tree.root)) >= 2

\* C3: after every insert or delete on a Red-Black tree, every path from the
\* root to an absent child passes through the same number of BLACK nodes.
C3_BlackHeight ==
  (treeType = "RBTree" /\ ~threw) => BlackHeight(tree.nodes, tree.root) # -1

\* C4: after every insert or delete on a Red-Black tree, no RED node has a RED
\* child.
C4_NoRedRed ==
  (treeType = "RBTree" /\ ~threw) =>
    \A n \in DOMAIN tree.nodes :
      tree.nodes[n].color = RED =>
        /\ IsBlackOrAbsent(tree, tree.nodes[n].left)
        /\ IsBlackOrAbsent(tree, tree.nodes[n].right)

\* A delete whose fix-up loop recoloured a sibling RED has returned and the
\* tree still holds a RED node.
C4_Witness ==
  /\ treeType = "RBTree"
  /\ ~threw
  /\ lastOp.op = "delete"
  /\ HasRecolor(animations, RED)
  /\ \E n \in DOMAIN tree.nodes : tree.nodes[n].color = RED

\* C5: after every insert or delete on a Red-Black tree, the tree is empty or
\* its root is BLACK.
C5_RootBlack ==
  (treeType = "RBTree" /\ ~threw) =>
    (tree.root = NULL \/ tree.nodes[tree.root].color = BLACK)

\* A delete has removed the root node and another node has become the root.
C5_Witness ==
  /\ treeType = "RBTree"
  /\ ~threw
  /\ lastOp.op = "delete"
  /\ pre.root # NULL
  /\ tree.root # NULL
  /\ tree.root # pre.root

\* C6: after every insert or delete on an AVL tree, the true heights of the
\* left and right subtrees of every node differ by at most 1.
C6_AVLBalanced ==
  (treeType = "AVL" /\ ~threw) =>
    \A n \in DOMAIN tree.nodes :
      LET d == TrueHeight(tree.nodes, tree.nodes[n].left)
               - TrueHeight(tree.nodes, tree.nodes[n].right)
      IN -1 <= d /\ d <= 1

\* An AVL delete that rotated has returned.
C6_Witness ==
  /\ treeType = "AVL"
  /\ ~threw
  /\ lastOp.op = "delete"
  /\ HasRotation(animations)

\* C7: in each engine, after every insert or delete returns, the root has no
\* parent and every child's parent is the node it is a child of.
C7_ParentMirror ==
  ~threw =>
    /\ tree.root # NULL => tree.nodes[tree.root].parent = NULL
    /\ \A n \in DOMAIN tree.nodes :
         /\ tree.nodes[n].left # NULL => tree.nodes[tree.nodes[n].left].parent = n
         /\ tree.nodes[n].right # NULL => tree.nodes[tree.nodes[n].right].parent = n

\* A Red-Black insert has rotated at the root: another node is the root now.
C7_Witness ==
  /\ treeType = "RBTree"
  /\ ~threw
  /\ lastOp.op = "insert"
  /\ HasRotation(animations)
  /\ pre.root # NULL
  /\ tree.root # pre.root

\* C8: in each engine every insert, delete and search call returns normally:
\* no call fails by reading a field of an absent node.
C8_ReturnsNormally == ~threw

\* C9: in each engine the found field of the result of search(v) is true
\* exactly when v is stored in the tree.
C9_SearchFound ==
  (lastOp.op = "search" /\ ~threw) =>
    (found = "true" <=> lastOp.value \in TreeValues(tree))

\* C10: in each engine insert(v) of a stored v leaves the tree object as it
\* was (node graph and id-generation counter) and its step list holds a status
\* step reporting that v already exists.
C10_DuplicateInsert ==
  (lastOp.op = "insert" /\ ~threw /\ lastOp.value \in TreeValues(pre)) =>
    /\ tree = pre
    /\ HasStep(animations, Status("already-exists", lastOp.value, NULL))

\* C11: in each engine delete(v) of a value that is not stored (the empty tree
\* included) returns normally, leaves root and nodes as they were, and its step
\* list holds a status step reporting that v was not found.
C11_DeleteAbsent ==
  (lastOp.op = "delete" /\ lastOp.value \notin TreeValues(pre)) =>
    /\ ~threw
    /\ tree.root = pre.root
    /\ tree.nodes = pre.nodes
    /\ \/ HasStep(animations, Status("not-found", lastOp.value, NULL))
       \/ HasStep(animations, Status("not-found-for-deletion", lastOp.value, NULL))

\* A delete of a value that is not stored has walked a Red-Black tree of at
\* least two nodes.
C11_Witness ==
  /\ treeType = "RBTree"
  /\ lastOp.op = "delete"
  /\ lastOp.value \notin TreeValues(pre)
  /\ Cardinality(DOMAIN pre.nodes) >= 2

\* ======================================================== round trips
\* insert(value) immediately followed by delete(value) on the same instance:
\* `first` is the model state before the insert, st the one after it.  pre is
\* the tree object as it was before the insert.
ThenDelete(st, first, value) ==
  IF st.threw
  THEN [st EXCEPT !.pre = first.tree,
                  !.lastOp = [op |-> "insert-delete", value |-> value]]
  ELSE [After(st, "delete", value) EXCEPT
          !.pre = first.tree,
          !.lastOp = [op |-> "insert-delete", value |-> value]]

InsertThenDelete(st, value) == ThenDelete(After(st, "insert", value), st, value)

MaxTripIds == 5

\* The round trip is made with a value that is not stored.
RoundTrip(v) ==
  /\ ~threw
  /\ tree.nodeIdCounter < MaxTripIds
  /\ v \notin TreeValues(tree)
  /\ Becomes(InsertThenDelete(Now, v))
  /\ NoResult

TripNext ==
  \/ \E v \in Values : Insert(v)
  \/ \E v \in Values : Delete(v)
  \/ \E v \in Values : RoundTrip(v)

SpecTrip == Init /\ [][TripNext]_vars

\* C12: in each engine, for every reachable tree T and every value V not
\* stored in T, insert(V) immediately followed by delete(V) returns and gives a
\* tree whose inorder sequence is that of T; on the empty tree the root is
\* null again, also at the fifth such pair in a row.
C12_RoundTrip ==
  lastOp.op = "insert-delete" =>
    /\ ~threw
    /\ InorderResult(tree.nodes, tree.root) = InorderResult(pre.nodes, pre.root)
    /\ pre.root = NULL => tree.root = NULL

\* The fifth insert-delete pair on an empty tree has returned: five ids have
\* been handed out and the tree is empty.
C12_Witness ==
  /\ lastOp.op = "insert-delete"
  /\ pre.root = NULL
  /\ pre.nodeIdCounter = 4
  /\ tree.nodeIdCounter = 5
  /\ tree.root = NULL

\* ======================================================== clone
\* The Node object _safeCloneNode makes for `node` once its subtrees l and r
\* are cloned: `new Node(node.value, node.id, ...)` with height and color
\* copied, left and right set to the clones and their parent set to it.
SafeCloneNode_join(nodes, node, l, r) ==
  [node  |-> node,
   nodes |-> [i \in {node} \cup DOMAIN l.nodes \cup DOMAIN r.nodes |->
                IF i = node
                THEN [Node(nodes[node].value) EXCEPT !.id = nodes[node].id,
                                                     !.height = nodes[node].height,
                                                     !.color = nodes[node].color,
                                                     !.left = l.node,
                                                     !.right = r.node]
                ELSE IF i \in DOMAIN l.nodes
                THEN (IF i = l.node THEN [l.nodes[i] EXCEPT !.parent = node] ELSE l.nodes[i])
                ELSE (IF i = r.node THEN [r.nodes[i] EXCEPT !.parent = node] ELSE r.nodes[i])],
   own   |-> l.own /\ r.own]

\* _safeCloneNode returning `node` itself instead of a new Node.
SafeCloneNode_same(nodes, node) ==
  [node  |-> node,
   nodes |-> [i \in Reach(nodes, node) |-> nodes[i]],
   own   |-> node = NULL]

\* _safeCloneNode (the same code in the three engines, and in BST._cloneNode):
\* the cloned node, the Node objects of the cloned subtree, and whether every
\* one of them was made by `new Node` in this call.
RECURSIVE SafeCloneNode(_, _)
SafeCloneNode(nodes, node) ==
  IF node = NULL THEN [node |-> NULL, nodes |-> EmptyTree.nodes, own |-> TRUE]
  ELSE SafeCloneNode_join(nodes, node,
                          SafeCloneNode(nodes, nodes[node].left),
                          SafeCloneNode(nodes, nodes[node].right))

\* `newTree.nodeIdCounter = this.nodeIdCounter; newTree.root = <c>`
SafeClone_newTree(t, c) ==
  [tree  |-> [root |-> c.node, nodes |-> c.nodes, nodeIdCounter |-> t.nodeIdCounter],
   own   |-> c.own,
   threw |-> FALSE]

\* safeClone (the same code in the three engines).
SafeClone(t) == SafeClone_newTree(t, SafeCloneNode(t.nodes, t.root))

\* tree.clone(): class BST defines clone, with the code of safeClone; classes
\* AVLTree and RedBlackTree define no clone, and calling undefined throws a
\* TypeError.
Clone(ty, t) ==
  IF ty = "BST" THEN SafeClone(t)
  ELSE [tree |-> NoCopy, own |-> TRUE, threw |-> TRUE]

\* The model state after a clone call on the tree instance has returned c.
Cloned(st, op, c) ==
  [treeType   |-> st.treeType,
   tree       |-> st.tree,
   pre        |-> st.tree,
   stored     |-> st.stored,
   lastOp     |-> [op |-> op, value |-> NULL],
   animations |-> <<>>,
   found      |-> "undefined",
   threw      |-> c.threw]

\* The other tree object after a call that ended in call state s: when the two
\* trees share Node objects, the other one sees the Node objects as the call
\* left them.
SeenFrom(other, s, shared) ==
  IF shared
  THEN Finish([root |-> other.root,
               nodes |-> [i \in DOMAIN other.nodes \cup DOMAIN s.nodes |->
                            IF i \in DOMAIN s.nodes THEN s.nodes[i] ELSE other.nodes[i]],
               ctr |-> other.nodeIdCounter])
  ELSE other

MaxCloneVal == 2
MaxCloneIds == 3

CloneValues == 1..MaxCloneVal
CloneOps == {"insert", "delete"}

\* tree.safeClone()
CallSafeClone ==
  /\ ~threw
  /\ Becomes(Cloned(Now, "safeClone", SafeClone(tree)))
  /\ copy' = SafeClone(tree).tree
  /\ aliased' = ~SafeClone(tree).own
  /\ UNCHANGED result
  /\ UNCHANGED appVars

\* tree.clone()
CallClone ==
  /\ ~threw
  /\ Becomes(Cloned(Now, "clone", Clone(treeType, tree)))
  /\ copy' = IF Clone(treeType, tree).threw THEN copy ELSE Clone(treeType, tree).tree
  /\ aliased' = IF Clone(treeType, tree).threw THEN aliased ELSE ~Clone(treeType, tree).own
  /\ UNCHANGED result
  /\ UNCHANGED appVars

\* tree.insert(v) or tree.delete(v) on the instance that was cloned.
OnSource(op, v) ==
  /\ ~threw
  /\ op = "insert" => tree.nodeIdCounter < MaxCloneIds
  /\ Do(op, v)
  /\ copy' = IF copy = NoCopy THEN copy
             ELSE SeenFrom(copy, Call(treeType, op, tree, v).s, aliased)
  /\ UNCHANGED <<result, aliased>>
  /\ UNCHANGED appVars

\* The model state after the call `op(value)` on the clone has returned r.
ReturnedOnCopy(st, cp, shared, op, value, r) ==
  [treeType   |-> st.treeType,
   tree       |-> SeenFrom(st.tree, r.s, shared),
   pre        |-> cp,
   stored     |-> st.stored,
   lastOp     |-> [op |-> op, value |-> value],
   animations |-> r.s.anims,
   found      |-> r.found,
   threw      |-> r.s.threw]

\* cloned.insert(v) or cloned.delete(v) on the tree a clone call returned.
OnCopy(op, v) ==
  /\ ~threw
  /\ copy # NoCopy
  /\ op = "insert" => copy.nodeIdCounter < MaxCloneIds
  /\ Becomes(ReturnedOnCopy(Now, copy, aliased, "copy." \o op, v,
                            Call(treeType, op, copy, v)))
  /\ copy' = Finish(Call(treeType, op, copy, v).s)
  /\ UNCHANGED <<result, aliased>>
  /\ UNCHANGED appVars

CloneNext ==
  \/ CallSafeClone
  \/ CallClone
  \/ \E op \in CloneOps, v \in CloneValues : OnSource(op, v)
  \/ \E op \in CloneOps, v \in CloneValues : OnCopy(op, v)

SpecClone == Init /\ [][CloneNext]_vars

OwnParents(t) ==
  \A n \in DOMAIN t.nodes :
    IF n = t.root THEN t.nodes[n].parent = NULL
    ELSE /\ t.nodes[n].parent \in DOMAIN t.nodes
         /\ \/ t.nodes[t.nodes[n].parent].left = n
            \/ t.nodes[t.nodes[n].parent].right = n

\* Trees a and b have the same shape with, node for node, the same id, value,
\* colour and height.
SameShape(a, b) ==
  /\ a.root = b.root
  /\ DOMAIN a.nodes = DOMAIN b.nodes
  /\ \A n \in DOMAIN a.nodes :
       /\ a.nodes[n].value = b.nodes[n].value
       /\ a.nodes[n].color = b.nodes[n].color
       /\ a.nodes[n].height = b.nodes[n].height
       /\ a.nodes[n].left = b.nodes[n].left
       /\ a.nodes[n].right = b.nodes[n].right

\* C14: every engine offers clone(); the tree it returns has the shape of the
\* source at clone time with, node for node, the same id, value, colour and
\* height, every parent pointer of the clone refers to the clone's own node,
\* and no node object is shared with the source.
C14_Clone ==
  lastOp.op = "clone" =>
    /\ ~threw
    /\ SameShape(copy, pre)
    /\ OwnParents(copy)
    /\ ~aliased

\* ======================================================== traversals
\* The 'show-value' step of a traversal.
ShowValue(id, value) ==
  [type |-> "show-value", nodeId |-> id, tag |-> "", a |-> value, b |-> NULL]

\* The closing status step of a traversal: its message holds
\* `result.join(' -> ')`.
TraversalComplete(kind, list) ==
  [type |-> "update-status", nodeId |-> NULL, tag |-> kind \o "-complete",
   a |-> NULL, b |-> NULL, list |-> list]

\* The visit of a node in the three helpers: the 'visited' highlight, the
\* 'show-value' step and `result.push(node.value)`.  r is the pair of arrays
\* the helpers fill.
Visit(nodes, node, r) ==
  [result |-> Append(r.result, nodes[node].value),
   anims  |-> r.anims \o <<Highlight(node, "visited"), ShowValue(node, nodes[node].value)>>]

RECURSIVE InorderHelper(_, _, _)
InorderHelper(nodes, node, r) ==
  IF node = NULL THEN r
  ELSE InorderHelper(nodes, nodes[node].right,
                     Visit(nodes, node, InorderHelper(nodes, nodes[node].left, r)))

RECURSIVE PreorderHelper(_, _, _)
PreorderHelper(nodes, node, r) ==
  IF node = NULL THEN r
  ELSE PreorderHelper(nodes, nodes[node].right,
                      PreorderHelper(nodes, nodes[node].left, Visit(nodes, node, r)))

\* _postorderHelper visiting the node before its subtrees.
PostorderHelper_nodeFirst(nodes, node, r) == PreorderHelper(nodes, node, r)

RECURSIVE PostorderHelper(_, _, _)
PostorderHelper(nodes, node, r) ==
  IF node = NULL THEN r
  ELSE Visit(nodes, node,
             PostorderHelper(nodes, nodes[node].right,
                             PostorderHelper(nodes, nodes[node].left, r)))

TraversalKinds == {"inorder", "preorder", "postorder"}

\* The helper call of a traversal, after the opening status step.
TraversalHelper(kind, t) ==
  IF kind = "inorder"
  THEN InorderHelper(t.nodes, t.root, [result |-> <<>>, anims |-> <<Status("inorder-start", NULL, NULL)>>])
  ELSE IF kind = "preorder"
  THEN PreorderHelper(t.nodes, t.root, [result |-> <<>>, anims |-> <<Status("preorder-start", NULL, NULL)>>])
  ELSE PostorderHelper(t.nodes, t.root, [result |-> <<>>, anims |-> <<Status("postorder-start", NULL, NULL)>>])

\* `return { result, animations }` after the closing status step.
Traversal_return(kind, r) ==
  [result |-> r.result, anims |-> Append(r.anims, TraversalComplete(kind, r.result))]

\* inorderTraversal, preorderTraversal, postorderTraversal (the same code in
\* the three engines).
Traversal(kind, t) == Traversal_return(kind, TraversalHelper(kind, t))

\* The model state after a traversal of the tree instance has returned r.
Traversed(st, kind, r) ==
  [treeType   |-> st.treeType,
   tree       |-> st.tree,
   pre        |-> st.tree,
   stored     |-> st.stored,
   lastOp     |-> [op |-> kind, value |-> NULL],
   animations |-> r.anims,
   found      |-> "undefined",
   threw      |-> FALSE]

Traverse(kind) ==
  /\ ~threw
  /\ Becomes(Traversed(Now, kind, Traversal(kind, tree)))
  /\ result' = Traversal(kind, tree).result
  /\ UNCHANGED <<copy, aliased>>
  /\ UNCHANGED appVars

TraverseNext ==
  \/ \E v \in Values : Insert(v)
  \/ \E v \in Values : Delete(v)
  \/ \E kind \in TraversalKinds : Traverse(kind)

SpecTraverse == Init /\ [][TraverseNext]_vars

\* The values of the subtree of t rooted at node n.
SubtreeValues(t, n) == {t.nodes[i].value : i \in Reach(t.nodes, n)}

\* The place of value v in the list.
Pos(list, v) == CHOOSE i \in 1..Len(list) : list[i] = v

\* Every value of A comes before every value of B in the list.
AllBefore(list, A, B) == \A x \in A, y \in B : Pos(list, x) < Pos(list, y)

\* C15: in each engine, the result list of each of the three traversals holds
\* every value of the tree exactly once (its length is the number of values);
\* inorder is ascending, preorder has each node before the values of its left
\* subtree and those before the values of its right subtree, postorder has each
\* node after the values of its left and right subtrees.
C15_Traversals ==
  lastOp.op \in TraversalKinds =>
    /\ Len(result) = Cardinality(TreeValues(tree))
    /\ {result[i] : i \in 1..Len(result)} = TreeValues(tree)
    /\ lastOp.op = "inorder" => IsAscending(result)
    /\ lastOp.op = "preorder" =>
         \A n \in DOMAIN tree.nodes :
           /\ AllBefore(result, {tree.nodes[n].value}, SubtreeValues(tree, tree.nodes[n].left))
           /\ AllBefore(result, {tree.nodes[n].value}, SubtreeValues(tree, tree.nodes[n].right))
           /\ AllBefore(result, SubtreeValues(tree, tree.nodes[n].left),
                        SubtreeValues(tree, tree.nodes[n].right))
    /\ lastOp.op = "postorder" =>
         \A n \in DOMAIN tree.nodes :
           /\ AllBefore(result, SubtreeValues(tree, tree.nodes[n].left), {tree.nodes[n].value})
           /\ AllBefore(result, SubtreeValues(tree, tree.nodes[n].right), {tree.nodes[n].value})

\* A postorder traversal of a Red-Black tree of four values has returned a list
\* that is not the ascending one.
C15_Witness ==
  /\ treeType = "RBTree"
  /\ lastOp.op = "postorder"
  /\ Len(result) = 4
  /\ ~IsAscending(result)
  /\ TwoChildren(tree, tree.root)

\* ======================================================== AVL trees of six values
MaxAvlVal == 6
MaxAvlIds == 6

AvlValues == 1..MaxAvlVal

AvlInit == Init /\ treeType = "AVL"

AvlInsert(v) == ~threw /\ tree.nodeIdCounter < MaxAvlIds /\ Do("insert", v) /\ NoResult

AvlNext ==
  \/ \E v \in AvlValues : AvlInsert(v)
  \/ \E v \in AvlValues : Delete(v)

SpecAvl == AvlInit /\ [][AvlNext]_vars

\* The stored height of node n of t, 0 for an absent node (getHeight).
StoredHeight(t, n) == IF n = NULL THEN 0 ELSE t.nodes[n].height

\* C16: after every insert or delete on an AVL tree the height field of every
\* node is 1 + the larger of the height fields of its children, an absent child
\* counting as 0, so the field is the true height of the subtree.
C16_StoredHeight ==
  (treeType = "AVL" /\ ~threw) =>
    \A n \in DOMAIN tree.nodes :
      /\ tree.nodes[n].height =
           1 + Max(StoredHeight(tree, tree.nodes[n].left),
                   StoredHeight(tree, tree.nodes[n].right))
      /\ tree.nodes[n].height = TrueHeight(tree.nodes, n)

\* An insert into an AVL tree has rotated and left a root of height 2 over two
\* leaves.
C16_Witness ==
  /\ treeType = "AVL"
  /\ ~threw
  /\ lastOp.op = "insert"
  /\ HasRotation(animations)
  /\ TwoChildren(tree, tree.root)
  /\ tree.nodes[tree.root].height = 2
  /\ tree.nodes[tree.nodes[tree.root].left].height = 1

\* The smallest and the largest value of a set of numbers.
Smallest(S) == CHOOSE x \in S : \A y \in S : x <= y
Largest(S) == CHOOSE x \in S : \A y \in S : x >= y

\* The tree holds the values of S with the median at the root, the smallest at
\* the left child of the root and the largest at the right child.
MedianAtRoot(t, S) ==
  /\ t.root # NULL
  /\ t.nodes[t.root].value \in S \ {Smallest(S), Largest(S)}
  /\ t.nodes[t.root].left # NULL
  /\ t.nodes[t.nodes[t.root].left].value = Smallest(S)
  /\ t.nodes[t.root].right # NULL
  /\ t.nodes[t.nodes[t.root].right].value = Largest(S)

\* Three inserts of three distinct values are all the tree has seen change it:
\* the id counter, which never goes down, is 3 and three values are stored.
ThreeInserted ==
  /\ ~threw
  /\ lastOp.op = "insert"
  /\ tree.nodeIdCounter = 3
  /\ Cardinality(stored) = 3

\* C17: three distinct values inserted in any order into an empty AVL tree give
\* a root with the median, a left child with the smallest and a right child
\* with the largest value.
C17_AVLThree ==
  (treeType = "AVL" /\ lastOp.op = "insert" /\ tree.nodeIdCounter = 3
     /\ Cardinality(stored) = 3) =>
    /\ ~threw
    /\ MedianAtRoot(tree, stored)

\* The third insert into an AVL tree has met the Left-Right case.
C17_Witness ==
  /\ treeType = "AVL"
  /\ ThreeInserted
  /\ HasStep(animations, Status("left-right-case", Largest(stored), NULL))

\* C18: three distinct values inserted in any order into an empty Red-Black
\* tree give a BLACK root with the median, a left child with the smallest and a
\* right child with the largest value.
C18_RBThree ==
  (treeType = "RBTree" /\ lastOp.op = "insert" /\ tree.nodeIdCounter = 3
     /\ Cardinality(stored) = 3) =>
    /\ ~threw
    /\ MedianAtRoot(tree, stored)
    /\ tree.nodes[tree.root].color = BLACK

\* The third insert into a Red-Black tree has met the Left-Left case.
C18_Witness ==
  /\ treeType = "RBTree"
  /\ ThreeInserted
  /\ HasStep(animations, Status("left-left-case", NULL, NULL))
  /\ HasRotation(animations)

\* ceil(1.44 * log2(n + 2)) for n = 0..8: 1.44 * log2 of 2..10 is 1.44, 2.28,
\* 2.88, 3.34, 3.72, 4.04, 4.32, 4.56, 4.78.
HeightBound(n) == <<2, 3, 3, 4, 4, 5, 5, 5, 5>>[n + 1]

\* C19: after any sequence of inserts and deletes that leaves n values in an
\* AVL tree, getHeight(root) is at most ceil(1.44 * log2(n + 2)).
C19_AVLHeightBound ==
  (treeType = "AVL" /\ ~threw) =>
    StoredHeight(tree, tree.root) <= HeightBound(Cardinality(DOMAIN tree.nodes))

\* An AVL tree of six values, where a list-shaped tree would be over the bound.
C19_Witness ==
  /\ treeType = "AVL"
  /\ ~threw
  /\ lastOp.op = "insert"
  /\ Cardinality(DOMAIN tree.nodes) = 6
  /\ Cardinality(DOMAIN tree.nodes) > HeightBound(6)
  /\ StoredHeight(tree, tree.root) = 3

\* ======================================================== replay of the log
\* executeAnimation on one step, for the colours: a 'recolor-node' step sets
\* the colour of the node of that id, if there is one.
ExecuteRecolor(colors, step) ==
  IF step.type = "recolor-node" /\ step.nodeId \in DOMAIN colors
  THEN [colors EXCEPT ![step.nodeId] = step.tag]
  ELSE colors

\* The colours after the steps from the i-th on have been executed in order.
RECURSIVE ReplayColors(_, _, _)
ReplayColors(colors, steps, i) ==
  IF i > Len(steps) THEN colors
  ELSE ReplayColors(ExecuteRecolor(colors, steps[i]), steps, i + 1)

\* The colour of every node of t.
ColorsOf(t) == [n \in DOMAIN t.nodes |-> t.nodes[n].color]

\* C20: for every Red-Black delete call, the colours before the call with the
\* recolor-node steps of the returned list applied in order are, for every
\* node still in the tree, the colours after the call.
C20_DeleteRecolorLog ==
  (treeType = "RBTree" /\ lastOp.op = "delete" /\ ~threw) =>
    \A n \in DOMAIN tree.nodes :
      ReplayColors(ColorsOf(pre), animations, 1)[n] = tree.nodes[n].color

\* The recolor-node steps of a list as <<node id, colour>> pairs, in order.
RECURSIVE RecolorPairs(_, _)
RecolorPairs(steps, i) ==
  IF i > Len(steps) THEN <<>>
  ELSE IF steps[i].type = "recolor-node"
  THEN <<(<<steps[i].nodeId, steps[i].tag>>)>> \o RecolorPairs(steps, i + 1)
  ELSE RecolorPairs(steps, i + 1)

\* The list a, from its i-th element on, is met in order in the list b from its
\* j-th element on.
RECURSIVE InOrderWithin(_, _, _, _)
InOrderWithin(a, i, b, j) ==
  IF i > Len(a) THEN TRUE
  ELSE IF j > Len(b) THEN FALSE
  ELSE IF a[i] = b[j] THEN InOrderWithin(a, i + 1, b, j + 1)
  ELSE InOrderWithin(a, i, b, j + 1)

\* The colours a replay of an insert starts from: the colour before the call
\* for a node that existed, none for the new node.
ColorsBeforeInsert ==
  [n \in DOMAIN tree.nodes |->
     IF n \in DOMAIN pre.nodes THEN pre.nodes[n].color ELSE "none"]

\* C21: for every Red-Black insert call, the colours before the call with the
\* recolor-node steps of the returned list applied in order are, for every node
\* of the tree, the new node included, the colours after the call, and the
\* steps come in the order in which the call assigned the colours.
C21_InsertRecolorLog ==
  (treeType = "RBTree" /\ lastOp.op = "insert" /\ ~threw) =>
    /\ \A n \in DOMAIN tree.nodes :
         ReplayColors(ColorsBeforeInsert, animations, 1)[n] = tree.nodes[n].color
    /\ InOrderWithin(RecolorPairs(animations, 1), 1,
                     Call("RBTree", "insert", pre, lastOp.value).s.assigned, 1)

\* An insert into a Red-Black tree has recoloured under a red uncle, which
\* made the root RED, and has then made the root BLACK again: one node is
\* recoloured twice in one call.
C21_Witness ==
  /\ treeType = "RBTree"
  /\ lastOp.op = "insert"
  /\ ~threw
  /\ HasStep(animations, Status("uncle-red", NULL, NULL))
  /\ HasStep(animations, Recolor(tree.root, RED))
  /\ HasStep(animations, Status("root-recolored", NULL, NULL))

\* C22: in each engine the step list of delete(v) holds a status step reporting
\* a successful deletion of v only if v was stored before the call and is
\* removed, and when v was absent it reports not-found and no successful
\* deletion.
C22_DeleteLog ==
  lastOp.op = "delete" =>
    /\ HasStep(animations, Status("deleted", lastOp.value, NULL)) =>
         /\ lastOp.value \in TreeValues(pre)
         /\ lastOp.value \notin TreeValues(tree)
    /\ lastOp.value \notin TreeValues(pre) =>
         /\ \/ HasStep(animations, Status("not-found", lastOp.value, NULL))
            \/ HasStep(animations, Status("not-found-for-deletion", lastOp.value, NULL))
         /\ ~HasStep(animations, Status("deleted", lastOp.value, NULL))

\* The nodes compared with v on the walk from node n of t, in walk order.
RECURSIVE WalkPath(_, _, _)
WalkPath(t, n, v) ==
  IF n = NULL THEN <<>>
  ELSE IF v = t.nodes[n].value THEN <<n>>
  ELSE IF v < t.nodes[n].value THEN <<n>> \o WalkPath(t, t.nodes[n].left, v)
  ELSE <<n>> \o WalkPath(t, t.nodes[n].right, v)

\* The node ids of the highlight-node steps of a list, in order.
RECURSIVE HighlightedNodes(_, _)
HighlightedNodes(steps, i) ==
  IF i > Len(steps) THEN <<>>
  ELSE IF steps[i].type = "highlight-node"
  THEN <<steps[i].nodeId>> \o HighlightedNodes(steps, i + 1)
  ELSE HighlightedNodes(steps, i + 1)

\* C23: in each engine the step list of search(v) holds a highlight-node step
\* for every node compared on the walk from the root, in walk order, and its
\* last step is the status step saying that v was found, when v is stored, or
\* not found, when it is not.
C23_SearchLog ==
  (lastOp.op = "search" /\ ~threw) =>
    /\ InOrderWithin(WalkPath(pre, pre.root, lastOp.value), 1,
                     HighlightedNodes(animations, 1), 1)
    /\ animations # <<>>
    /\ animations[Len(animations)] =
         IF lastOp.value \in TreeValues(pre)
         THEN Status("found", lastOp.value, NULL)
         ELSE Status("not-found", lastOp.value, NULL)

\* C24: in each engine every insert, delete, search and traversal call, on any
\* reachable tree, the empty one included, returns an animations list of at
\* least one step.
C24_SomeStep ==
  lastOp.op \in {"insert", "delete", "search"} \cup TraversalKinds =>
    /\ ~threw
    /\ Len(animations) >= 1

\* ======================================================== the App component
\* treeInstance.safeClone(), as an element of the undo stack, of the redo stack
\* or as treeBeforeAnimation: the class of the instance and the cloned tree.
Snapshot(ty, t) ==
  [treeType |-> ty,
   tree     |-> SafeClone(t).tree,
   shares   |-> IF SafeClone(t).own THEN "nothing" ELSE "nodes"]

\* The stored tree objects of a stack with the one at position i handed to
\* setTreeInstance: that object is now the live tree instance.
Installed(stack, i) == [stack EXCEPT ![i].shares = "object"]

\* A stored tree after a call or an animation step has changed the live tree
\* instance in place into t: an object that is the live instance, or holds
\* nodes of it, changes with it.
InPlace(snapshot, t) ==
  IF snapshot.shares = "nothing" THEN snapshot ELSE [snapshot EXCEPT !.tree = t]

InPlaceAll(stack, t) == [i \in 1..Len(stack) |-> InPlace(stack[i], t)]

\* The characters of the decimal digits, and the text a user types for n >= 0.
DigitChars == <<"0", "1", "2", "3", "4", "5", "6", "7", "8", "9">>

RECURSIVE DecimalText(_)
DecimalText(n) ==
  IF n < 10 THEN <<DigitChars[n + 1]>>
  ELSE Append(DecimalText(n \div 10), DigitChars[(n % 10) + 1])

IsDigit(c) == \E d \in 1..10 : DigitChars[d] = c
DigitValue(c) == (CHOOSE d \in 1..10 : DigitChars[d] = c) - 1

\* The digits parseInt reads from the i-th character on, up to the first
\* character that is no digit.
RECURSIVE ParseDigits(_, _, _)
ParseDigits(text, i, acc) ==
  IF i > Len(text) THEN acc
  ELSE IF ~IsDigit(text[i]) THEN acc
  ELSE ParseDigits(text, i + 1, 10 * acc + DigitValue(text[i]))

\* parseInt(value, 10) on the text of a number input (no white space): an
\* optional sign, then digits; NaN when no digit follows.
ParseInt_from(text, neg, first) ==
  IF first > Len(text) THEN [nan |-> TRUE, value |-> 0]
  ELSE IF ~IsDigit(text[first]) THEN [nan |-> TRUE, value |-> 0]
  ELSE [nan |-> FALSE,
        value |-> IF neg THEN 0 - ParseDigits(text, first, 0)
                  ELSE ParseDigits(text, first, 0)]

ParseInt(text) ==
  IF text # <<>> /\ text[1] = "-" THEN ParseInt_from(text, TRUE, 2)
  ELSE IF text # <<>> /\ text[1] = "+" THEN ParseInt_from(text, FALSE, 2)
  ELSE ParseInt_from(text, FALSE, 1)

\* The values the live tree holds, in order.
Contents == InorderResult(tree.nodes, tree.root)

\* A handler has run past its guards: it is put in front of the one that ran
\* before it, with the contents of the live tree when it was called.
Remember(handler) ==
  events' = <<[handler |-> handler, before |-> Contents]>>
            \o (IF events = <<>> THEN <<>> ELSE <<events[1]>>)

Idle_always == TRUE

\* `if (isAnimating) return;` at the head of a handler: the handler goes on
\* when this holds.
Idle == ~isAnimating

\* `setAnimationQueue(<steps>); setIsAnimating(true)`, and the effect on
\* [animationQueue, isAnimating] that sets currentAnimationIndex to 0 and
\* starts executeAnimation.
StartAnimation(steps) ==
  /\ animationQueue' = steps
  /\ isAnimating' = TRUE
  /\ currentAnimationIndex' = 0

\* React runs the updater function given to a state setter either when the
\* setter is called or when the component is next rendered, which is after the
\* handler has mutated treeInstance in place.
UpdaterRuns == {"at-dispatch", "at-render"}

\* `setUndoStack((prev) => [...prev, treeInstance.safeClone()])` in a handler
\* that goes on to mutate treeInstance into t.
PushUndo(t) ==
  \E at \in UpdaterRuns :
    undoStack' = Append(InPlaceAll(undoStack, t),
                        IF at = "at-dispatch" THEN Snapshot(treeType, tree)
                        ELSE Snapshot(treeType, t))

MaxAppVal == 2
MaxAppIds == 2
MaxAppUndo == 1

AppTexts == {DecimalText(n) : n \in 1..MaxAppVal}

handleInsert(text) ==
  /\ Idle
  /\ ~threw
  /\ ~ParseInt(text).nan
  /\ tree.nodeIdCounter < MaxAppIds
  /\ Len(undoStack) < MaxAppUndo
  /\ Do("insert", ParseInt(text).value)
  /\ PushUndo(tree')
  /\ redoStack' = <<>>
  /\ treeBeforeAnimation' = Snapshot(treeType, tree')
  /\ StartAnimation(animations')
  /\ Remember("insert")
  /\ result' = <<>>
  /\ UNCHANGED <<selectedType, copy, aliased>>

handleDelete(text) ==
  /\ Idle
  /\ ~threw
  /\ ~ParseInt(text).nan
  /\ Len(undoStack) < MaxAppUndo
  /\ Do("delete", ParseInt(text).value)
  /\ PushUndo(tree')
  /\ redoStack' = <<>>
  /\ treeBeforeAnimation' = Snapshot(treeType, tree)
  /\ StartAnimation(animations')
  /\ Remember("delete")
  /\ result' = <<>>
  /\ UNCHANGED <<selectedType, copy, aliased>>

handleSearch(text) ==
  /\ Idle
  /\ ~threw
  /\ ~ParseInt(text).nan
  /\ Do("search", ParseInt(text).value)
  /\ treeBeforeAnimation' = Snapshot(treeType, tree)
  /\ StartAnimation(animations')
  /\ Remember("search")
  /\ result' = <<>>
  /\ UNCHANGED <<selectedType, undoStack, redoStack, copy, aliased>>

handleTraverse(traversalType) ==
  /\ Idle
  /\ ~threw
  /\ Becomes(Traversed(Now, traversalType, Traversal(traversalType, tree)))
  /\ result' = Traversal(traversalType, tree).result
  /\ treeBeforeAnimation' = Snapshot(treeType, tree)
  /\ StartAnimation(animations')
  /\ Remember(traversalType)
  /\ UNCHANGED <<selectedType, undoStack, redoStack, copy, aliased>>

\* What a step that makes no call on the tree leaves alone.
NoCall == UNCHANGED <<pre, lastOp, animations, found, threw, result, copy, aliased>>

\* `setTreeInstance(<snapshot>)`: the snapshot object becomes the live tree, an
\* instance no call has been made on.
SetTreeInstance(snapshot) ==
  /\ treeType' = snapshot.treeType
  /\ tree' = snapshot.tree
  /\ stored' = TreeValues(snapshot.tree)
  /\ pre' = snapshot.tree
  /\ lastOp' = [op |-> "none", value |-> NULL]
  /\ animations' = <<>>
  /\ found' = "undefined"
  /\ result' = <<>>
  /\ UNCHANGED <<threw, copy, aliased>>

\* Undo that leaves the tree it installs on the undo stack.
handleUndo_noPop ==
  /\ Idle
  /\ ~threw
  /\ undoStack # <<>>
  /\ redoStack' = Append(redoStack, Snapshot(treeType, tree))
  /\ undoStack' = Installed(undoStack, Len(undoStack))
  /\ SetTreeInstance(undoStack[Len(undoStack)])
  /\ Remember("undo")
  /\ UNCHANGED <<selectedType, isAnimating, animationQueue, currentAnimationIndex,
                 treeBeforeAnimation>>

handleUndo ==
  /\ Idle
  /\ ~threw
  /\ undoStack # <<>>
  /\ redoStack' = Append(redoStack, Snapshot(treeType, tree))
  /\ undoStack' = SubSeq(Installed(undoStack, Len(undoStack)), 1, Len(undoStack) - 1)
  /\ SetTreeInstance(undoStack[Len(undoStack)])
  /\ Remember("undo")
  /\ UNCHANGED <<selectedType, isAnimating, animationQueue, currentAnimationIndex,
                 treeBeforeAnimation>>

handleRedo ==
  /\ Idle
  /\ ~threw
  /\ redoStack # <<>>
  /\ undoStack' = Append(undoStack, Snapshot(treeType, tree))
  /\ redoStack' = SubSeq(Installed(redoStack, Len(redoStack)), 1, Len(redoStack) - 1)
  /\ SetTreeInstance(redoStack[Len(redoStack)])
  /\ Remember("redo")
  /\ UNCHANGED <<selectedType, isAnimating, animationQueue, currentAnimationIndex,
                 treeBeforeAnimation>>

handleClear_noSnapshot ==
  /\ Idle
  /\ ~threw
  /\ Len(undoStack) < MaxAppUndo
  /\ redoStack' = <<>>
  /\ SetTreeInstance([treeType |-> "BST", tree |-> EmptyTree])
  /\ Remember("clear")
  /\ UNCHANGED <<selectedType, isAnimating, animationQueue, currentAnimationIndex,
                 treeBeforeAnimation, undoStack>>

\* `const newTree = new BST()` whatever the selected tree type.
handleClear ==
  /\ Idle
  /\ ~threw
  /\ Len(undoStack) < MaxAppUndo
  /\ undoStack' = Append(undoStack, Snapshot(treeType, tree))
  /\ redoStack' = <<>>
  /\ SetTreeInstance([treeType |-> "BST", tree |-> EmptyTree])
  /\ Remember("clear")
  /\ UNCHANGED <<selectedType, isAnimating, animationQueue, currentAnimationIndex,
                 treeBeforeAnimation>>

handleTreeTypeChange_alwaysBST(newType) ==
  /\ Idle
  /\ ~threw
  /\ undoStack' = <<>>
  /\ redoStack' = <<>>
  /\ selectedType' = newType
  /\ SetTreeInstance([treeType |-> "BST", tree |-> EmptyTree])
  /\ Remember("tree-type-change")
  /\ UNCHANGED <<isAnimating, animationQueue, currentAnimationIndex, treeBeforeAnimation>>

handleTreeTypeChange(newType) ==
  /\ Idle
  /\ ~threw
  /\ undoStack' = <<>>
  /\ redoStack' = <<>>
  /\ selectedType' = newType
  /\ SetTreeInstance([treeType |-> newType, tree |-> EmptyTree])
  /\ Remember("tree-type-change")
  /\ UNCHANGED <<isAnimating, animationQueue, currentAnimationIndex, treeBeforeAnimation>>

handleStopAndReset ==
  /\ isAnimating
  /\ ~threw
  /\ isAnimating' = FALSE
  /\ animationQueue' = <<>>
  /\ currentAnimationIndex' = 0
  /\ IF treeBeforeAnimation # NoSnapshot
     THEN SetTreeInstance(treeBeforeAnimation) /\ treeBeforeAnimation' = NoSnapshot
     ELSE UNCHANGED <<treeType, tree, stored, treeBeforeAnimation>> /\ NoCall
  /\ Remember("stop-and-reset")
  /\ UNCHANGED <<selectedType, undoStack, redoStack>>

\* The switch of executeAnimation on one step, for the fields of the nodes of
\* treeInstance the model keeps: a 'recolor-node' step sets the colour of the
\* node findNodeById finds.
ExecuteStep(t, step) ==
  [t EXCEPT !.nodes = [n \in DOMAIN t.nodes |->
                         [t.nodes[n] EXCEPT !.color =
                            ExecuteRecolor(ColorsOf(t), step)[n]]]]

\* executeAnimation leaving out every second step of the queue.
executeAnimation_skipping ==
  /\ isAnimating
  /\ animationQueue # <<>>
  /\ IF currentAnimationIndex >= Len(animationQueue)
     THEN /\ isAnimating' = FALSE
          /\ currentAnimationIndex' = 0
          /\ tree' = tree
     ELSE /\ isAnimating' = TRUE
          /\ currentAnimationIndex' = currentAnimationIndex + 2
          /\ tree' = ExecuteStep(tree, animationQueue[currentAnimationIndex + 1])
  /\ NoCall
  /\ UNCHANGED <<treeType, stored, selectedType, animationQueue, undoStack, redoStack,
                 treeBeforeAnimation, events>>

\* One run of executeAnimation, started by the effect or by its timer.
executeAnimation ==
  /\ isAnimating
  /\ animationQueue # <<>>
  /\ IF currentAnimationIndex >= Len(animationQueue)
     THEN /\ isAnimating' = FALSE
          /\ currentAnimationIndex' = 0
          /\ tree' = tree
     ELSE /\ isAnimating' = TRUE
          /\ currentAnimationIndex' = currentAnimationIndex + 1
          /\ tree' = ExecuteStep(tree, animationQueue[currentAnimationIndex + 1])
  /\ undoStack' = InPlaceAll(undoStack, tree')
  /\ redoStack' = InPlaceAll(redoStack, tree')
  /\ treeBeforeAnimation' = InPlace(treeBeforeAnimation, tree')
  /\ NoCall
  /\ UNCHANGED <<treeType, stored, selectedType, animationQueue, events>>

\* The App starts with a BST.
AppInit == Init /\ treeType = "BST"

AppNext ==
  \/ \E text \in AppTexts : handleInsert(text) /\ blocked' = "none" /\ UNCHANGED input
  \/ \E text \in AppTexts : handleDelete(text) /\ blocked' = "none" /\ UNCHANGED input
  \/ \E text \in AppTexts : handleSearch(text) /\ blocked' = "none" /\ UNCHANGED input
  \/ \E kind \in TraversalKinds : handleTraverse(kind) /\ blocked' = "none" /\ UNCHANGED input
  \/ handleUndo /\ blocked' = "none" /\ UNCHANGED input
  \/ handleRedo /\ blocked' = "none" /\ UNCHANGED input
  \/ handleClear /\ blocked' = "none" /\ UNCHANGED input
  \/ \E newType \in TreeTypes : handleTreeTypeChange(newType) /\ blocked' = "none" /\ UNCHANGED input
  \/ handleStopAndReset /\ blocked' = "none" /\ UNCHANGED input
  \/ executeAnimation /\ blocked' = "none" /\ UNCHANGED input

SpecApp == AppInit /\ [][AppNext]_vars

\* ---------------------------------------------------------- the input layer
\* The text a user types for an integer.
SignedText(n) == IF n < 0 THEN <<"-">> \o DecimalText(0 - n) ELSE DecimalText(n)

\* min and max of the number input of each form of ControlPanel.
FormRange(form) ==
  CASE form = "insert" -> [min |-> -9999, max |-> 9999]
    [] form = "delete" -> [min |-> -999, max |-> 999]
    [] form = "search" -> [min |-> -999, max |-> 999]

\* What becomes of the text of a form's number input when the form is
\* submitted: nothing when the text is empty (`if (value.trim())`, and the
\* submit button is disabled); the browser refuses a number outside min..max;
\* the App's handler refuses what parseInt reads no number in; anything else
\* is passed to the tree.
Outcome(form, text) ==
  IF text = <<>> THEN "empty"
  ELSE IF ParseInt(text).nan THEN "nan"
  ELSE IF ParseInt(text).value < FormRange(form).min THEN "invalid"
  ELSE IF ParseInt(text).value > FormRange(form).max THEN "invalid"
  ELSE "called"

Forms == {"insert", "delete", "search"}

onSubmit(form, text) ==
  CASE form = "insert" -> handleInsert(text)
    [] form = "delete" -> handleDelete(text)
    [] form = "search" -> handleSearch(text)

\* A form of ControlPanel is submitted with the text in its input.
Submit(form, text) ==
  /\ Idle
  /\ ~threw
  /\ input' = [form |-> form, text |-> text, outcome |-> Outcome(form, text)]
  /\ blocked' = "none"
  /\ IF Outcome(form, text) = "called"
     THEN onSubmit(form, text)
     ELSE UNCHANGED <<treeType, tree, pre, lastOp, animations, found, stored, threw,
                      result, copy, aliased, selectedType, isAnimating, animationQueue,
                      currentAnimationIndex, undoStack, redoStack, treeBeforeAnimation,
                      events>>

\* The integers typed in the forms: the ends of the ranges, and their
\* neighbours outside.
InputValues == {-10000, -1000, -999, 999, 1000, 10000}

InputTexts == {<<>>} \cup {SignedText(n) : n \in InputValues}

InputNext ==
  \/ \E form \in Forms, text \in InputTexts : Submit(form, text)
  \/ \E newType \in TreeTypes :
       handleTreeTypeChange(newType) /\ blocked' = "none" /\ UNCHANGED input
  \/ executeAnimation /\ blocked' = "none" /\ UNCHANGED input

SpecInput == AppInit /\ [][InputNext]_vars

\* C25: every value the input layer passes to insert, delete or search of a
\* tree is an integer from -999 to 999, and a submitted value outside that
\* range makes no call on the tree.
C25_InputRange ==
  /\ lastOp.op \in {"insert", "delete", "search"} => lastOp.value \in -999..999
  /\ (input.form \in Forms /\ ~ParseInt(input.text).nan
        /\ ParseInt(input.text).value \notin -999..999)
       => input.outcome # "called"

\* --------------------------------------------------- handlers while animating
\* The handlers that begin with `if (isAnimating) return;`.
GuardedHandlers ==
  {"insert", "delete", "search"} \cup TraversalKinds
    \cup {"undo", "redo", "clear", "tree-type-change"}

\* Handler h is called while an animation runs and returns at its first line.
ReturnedAtGuard(h) ==
  /\ ~Idle
  /\ blocked' = h
  /\ UNCHANGED <<treeType, tree, pre, lastOp, animations, found, stored, threw,
                 result, copy, aliased, selectedType, isAnimating, animationQueue,
                 currentAnimationIndex, undoStack, redoStack, treeBeforeAnimation,
                 events, input>>

BusyNext ==
  \/ AppNext
  \/ \E h \in GuardedHandlers : ReturnedAtGuard(h)

SpecBusy == AppInit /\ [][BusyNext]_vars

\* A call of one of the guarded handlers: one that returned at its guard, or
\* one that went on.
GuardedCall ==
  \/ blocked' \in GuardedHandlers
  \/ events' # events /\ events'[1].handler \in GuardedHandlers

\* C26: while isAnimating is true, a call of the insert, delete, search,
\* traverse, undo, redo, clear or tree-type-change handler changes none of
\* the live tree, the selected tree type, the undo stack, the redo stack and
\* the animation queue.
C26_BusyHandlers ==
  [][(isAnimating /\ GuardedCall)
       => UNCHANGED <<treeType, tree, selectedType, undoStack, redoStack,
                      animationQueue>>]_vars

C26_Witness ==
  /\ isAnimating
  /\ blocked = "clear"
  /\ tree.root # NULL
  /\ animationQueue # <<>>
  /\ currentAnimationIndex > 0

\* ------------------------------------------------------------- undo and redo
\* Handler h runs past its guards in this step.
Runs(h) == events' # events /\ events'[1].handler = h

\* The operations that push the tree on the undo stack.
UndoableOps == {"insert", "delete", "clear"}

\* C27: Undo after an insert, delete or clear (its animation finished) makes
\* the contents of the live tree those immediately before that operation; a
\* Redo after that Undo makes them those immediately after the operation,
\* which are the contents Undo was called with; an insert, delete or clear
\* empties the redo stack.
C27_UndoRedo ==
  [][/\ (Runs("undo") /\ events # <<>> /\ events[1].handler \in UndoableOps)
          => Contents' = events[1].before
     /\ (Runs("redo") /\ Len(events) = 2 /\ events[1].handler = "undo"
           /\ events[2].handler \in UndoableOps)
          => Contents' = events[1].before
     /\ (\E h \in UndoableOps : Runs(h)) => redoStack' = <<>>]_vars

\* ------------------------------------------------------------ tree type change
\* C28: after the tree type is changed while no animation runs, the live tree
\* is empty and an instance of the selected engine, and the undo stack and the
\* redo stack are empty.
C28_TreeTypeChange ==
  (events # <<>> /\ events[1].handler = "tree-type-change") =>
    /\ tree = EmptyTree
    /\ treeType = selectedType
    /\ undoStack = <<>>
    /\ redoStack = <<>>
    /\ ~isAnimating

C28_Witness ==
  /\ Len(events) = 2
  /\ events[1].handler = "tree-type-change"
  /\ events[1].before = <<1, 2>>
  /\ events[2].handler = "undo"
  /\ selectedType = "RBTree"
  /\ treeType = "RBTree"
  /\ tree = EmptyTree

\* ------------------------------------------------------------------- clear
\* C29: Clear, called while no animation runs, leaves the live tree without
\* nodes and puts the tree it replaced on top of the undo stack; an Undo that
\* follows restores exactly the contents before the Clear.
C29_Clear ==
  [][/\ Runs("clear") =>
          /\ ~isAnimating
          /\ tree'.root = NULL
          /\ DOMAIN tree'.nodes = {}
          /\ undoStack' # <<>>
          /\ undoStack'[Len(undoStack')].treeType = treeType
          /\ undoStack'[Len(undoStack')].tree = tree
     /\ (Runs("undo") /\ events # <<>> /\ events[1].handler = "clear")
          => Contents' = events[1].before]_vars

C29_Witness ==
  /\ Len(events) = 2
  /\ events[1].handler = "undo"
  /\ events[1].before = <<>>
  /\ events[2].handler = "clear"
  /\ events[2].before = <<1, 2>>
  /\ Contents = <<1, 2>>
  /\ treeType = "AVL"

\* ----------------------------------------------------------- stop and reset
\* The handlers that start an animation.
AnimatedOps == {"insert", "delete", "search"} \cup TraversalKinds

\* C30: when Stop & Reset is called while an animation started by insert,
\* delete, search or a traversal is in progress, afterwards isAnimating is
\* false, the animation queue is empty, no step of the queue can be applied any
\* more, and the live tree holds exactly the values it held before that
\* operation was called.
C30_StopAndReset ==
  [][(Runs("stop-and-reset") /\ events # <<>> /\ events[1].handler \in AnimatedOps)
       => /\ ~isAnimating'
          /\ animationQueue' = <<>>
          /\ ~(ENABLED executeAnimation)'
          /\ Contents' = events[1].before]_vars

\* ================================================ Red-Black trees, inserts only
MaxRbVal == 6
MaxRbIds == 6

RbValues == 1..MaxRbVal

RbInit == Init /\ treeType = "RBTree"

RbInsert(v) == ~threw /\ tree.nodeIdCounter < MaxRbIds /\ Do("insert", v) /\ NoResult

RbNext == \E v \in RbValues : RbInsert(v)

SpecRbInsert == RbInit /\ [][RbNext]_vars

\* C31: after any sequence of insert calls alone on an initially empty
\* Red-Black tree, every path from the root to an absent child passes through
\* the same number of BLACK nodes.
C31_InsertBlackHeight ==
  (treeType = "RBTree" /\ lastOp.op = "insert") =>
    /\ ~threw
    /\ BlackHeight(tree.nodes, tree.root) >= 1

\* The sixth value has been inserted by a call that met a RED uncle, after a
\* call that rotated.
C31_Witness ==
  /\ treeType = "RBTree"
  /\ lastOp.op = "insert"
  /\ Cardinality(DOMAIN tree.nodes) = 6
  /\ HasStep(animations, Status("uncle-red", NULL, NULL))
  /\ \E n \in DOMAIN tree.nodes : n # 0 /\ tree.root = n
  /\ BlackHeight(tree.nodes, tree.root) = 2

\* ------------------------------------------------------------------ node ids
\* The ids of the nodes of t.  BST writes the number n as `node-${n}`, the
\* other two engines use the number itself.
NodeIds(t) == {t.nodes[n].id : n \in DOMAIN t.nodes}

\* C32: in each engine, after any sequence of operations on one instance, the
\* nodes of the tree have pairwise distinct ids, a node keeps the id it was
\* created with, and a node created by the last call has an id no node of the
\* instance had before: every id handed out is below nodeIdCounter, which
\* never goes down, and a new node takes an id from the old counter on.
C32_NodeIds ==
  ~threw =>
    /\ \A a, b \in DOMAIN tree.nodes : a # b => tree.nodes[a].id # tree.nodes[b].id
    /\ \A a \in DOMAIN tree.nodes \cap DOMAIN pre.nodes : tree.nodes[a].id = pre.nodes[a].id
    /\ \A a \in DOMAIN tree.nodes : tree.nodes[a].id \in 0..(tree.nodeIdCounter - 1)
    /\ tree.nodeIdCounter >= pre.nodeIdCounter
    /\ \A a \in DOMAIN tree.nodes \ DOMAIN pre.nodes :
         /\ tree.nodes[a].id >= pre.nodeIdCounter
         /\ tree.nodes[a].id \notin NodeIds(pre)

\* An insert has created a node after a delete took a node with a smaller id
\* out of the tree.
C32_Witness ==
  /\ ~threw
  /\ lastOp.op = "insert"
  /\ DOMAIN tree.nodes \ DOMAIN pre.nodes # {}
  /\ Cardinality(DOMAIN tree.nodes) < tree.nodeIdCounter - 1
  /\ Cardinality(DOMAIN tree.nodes) >= 2

\* ------------------------------------------------- delete of a two-child node
\* The node of the smallest value below n in t (n itself when it has no left
\* child).
RECURSIVE LeftMost(_, _)
LeftMost(t, n) == IF t.nodes[n].left = NULL THEN n ELSE LeftMost(t, t.nodes[n].left)

\* delete(v) was called on a tree where v's node had two children.
TwoChildDelete ==
  /\ lastOp.op = "delete"
  /\ ~threw
  /\ lastOp.value \in TreeValues(pre)
  /\ TwoChildren(pre, NodeOf(pre, lastOp.value))

DeletedNode == NodeOf(pre, lastOp.value)

SuccessorNode == LeftMost(pre, pre.nodes[DeletedNode].right)

\* C33: in each engine, when delete(v) removes a value whose node has two
\* children, that node's id stays in the tree and carries the smallest value
\* of its former right subtree, and the one id that leaves the tree is the id
\* of the node that held that value.
C33_TwoChildDelete ==
  TwoChildDelete =>
    /\ DeletedNode \in DOMAIN tree.nodes
    /\ tree.nodes[DeletedNode].id = pre.nodes[DeletedNode].id
    /\ tree.nodes[DeletedNode].value = pre.nodes[SuccessorNode].value
    /\ \A m \in Reach(pre.nodes, pre.nodes[DeletedNode].right) :
         pre.nodes[SuccessorNode].value <= pre.nodes[m].value
    /\ NodeIds(pre) \ NodeIds(tree) = {pre.nodes[SuccessorNode].id}
    /\ NodeIds(tree) \subseteq NodeIds(pre)

\* The successor was not the right child of the deleted node.
C33_Witness ==
  /\ TwoChildDelete
  /\ SuccessorNode # pre.nodes[DeletedNode].right
  /\ DeletedNode \in DOMAIN tree.nodes
  /\ tree.nodes[DeletedNode].value = pre.nodes[SuccessorNode].value

\* ------------------------------------------------------- the walk of an insert
\* The nodes the walk of insert(v) compares v with and moves past, in walk
\* order: the nodes of the walk whose value is not v.
RECURSIVE MovedPast(_, _, _)
MovedPast(t, n, v) ==
  IF n = NULL THEN <<>>
  ELSE IF v = t.nodes[n].value THEN <<>>
  ELSE IF v < t.nodes[n].value THEN <<n>> \o MovedPast(t, t.nodes[n].left, v)
  ELSE <<n>> \o MovedPast(t, t.nodes[n].right, v)

\* The step that reports the move of the walk of insert(v) from node n of t
\* to a child.
MoveStep(t, n, v) ==
  IF v < t.nodes[n].value THEN Status("going-left", v, t.nodes[n].value)
  ELSE Status("going-right", v, t.nodes[n].value)

\* C34: in each engine, in the step list of insert(v), every node the walk
\* compares v with and moves past has a highlight-node step with its id before
\* the step that reports the move to its left or right child, and the
\* highlighted ids come in the order of the walk from the root.
C34_InsertHighlights ==
  (lastOp.op = "insert" /\ ~threw) =>
    /\ InOrderWithin(MovedPast(pre, pre.root, lastOp.value), 1,
                     HighlightedNodes(animations, 1), 1)
    /\ \A n \in DOMAIN pre.nodes :
         (\E k \in 1..Len(MovedPast(pre, pre.root, lastOp.value)) :
            MovedPast(pre, pre.root, lastOp.value)[k] = n)
         => \E i, j \in 1..Len(animations) :
              /\ i < j
              /\ animations[i].type = "highlight-node"
              /\ animations[i].nodeId = n
              /\ animations[j] = MoveStep(pre, n, lastOp.value)

\* ------------------------------------------------------- the animation runs out
\* The timer set by executeAnimation (setTimeout at the end of each run, the
\* effect for the first run) fires.
AnimationTick == executeAnimation /\ blocked' = "none" /\ UNCHANGED input

\* The App with timers that fire.
SpecAppLive == AppInit /\ [][AppNext]_vars /\ WF_vars(AnimationTick)

MaxTallLen == 22
MaxTallVal == 4
MaxTallIds == 24

TallValues == (1..MaxTallVal) \cup {MaxTallLen + 1, MaxTallLen + 2}

TallPrefix == [i \in 1..MaxTallLen |-> <<"insert", i>>]

TallStart == Replay(Constructed("RBTree"), TallPrefix)

TallInit ==
  /\ treeType = TallStart.treeType
  /\ tree = TallStart.tree
  /\ pre = TallStart.pre
  /\ stored = TallStart.stored
  /\ lastOp = TallStart.lastOp
  /\ animations = TallStart.animations
  /\ found = TallStart.found
  /\ threw = TallStart.threw
  /\ result = <<>>
  /\ copy = NoCopy
  /\ aliased = FALSE
  /\ selectedType = TallStart.treeType
  /\ AppMounted

TallInsert(v) ==
  ~threw /\ tree.nodeIdCounter < MaxTallIds /\ Do("insert", v) /\ NoResult
TallDelete(v) == ~threw /\ Do("delete", v) /\ NoResult

TallNext ==
  \/ \E v \in TallValues : TallInsert(v)
  \/ \E v \in TallValues : TallDelete(v)

SpecTall == TallInit /\ [][TallNext]_vars

\* ---------------------------------------------------- the fix-up loops end
\* The last call made on the tree, run again from the tree it was made on.
LastCall == Call(treeType, lastOp.op, pre, lastOp.value).s

\* A step between the i-th and the j-th of steps announces a rotation case of
\* the insert fix-up with a BLACK uncle.
UncleBlackCase(steps, i, j) ==
  \E k \in i..j :
    k <= Len(steps) /\
    steps[k] \in {Status("left-left-case", NULL, NULL),
                  Status("right-right-case", NULL, NULL)}

\* C36: on every Red-Black tree the operations reach, the insert fix-up loop
\* and the delete fix-up loop end: a pass through the loop body that is
\* followed by another leaves the cursor strictly closer to the root than it
\* found it, and no pass follows a pass of the insert fix-up that met a BLACK
\* uncle and rotated.
C36_FixupLoops ==
  (treeType = "RBTree" /\ lastOp.op \in {"insert", "delete"}) =>
    \A k \in 1..(Len(LastCall.passes) - 1) :
      /\ LastCall.passes[k + 1].depth < LastCall.passes[k].depth
      /\ lastOp.op = "insert" =>
           ~UncleBlackCase(LastCall.anims, LastCall.passes[k].at + 1,
                           LastCall.passes[k + 1].at)

\* A delete has returned whose fix-up loop went through its body twice: the
\* first pass recoloured the sibling and moved the cursor to the parent.
C36_Witness ==
  /\ treeType = "RBTree"
  /\ lastOp.op = "delete"
  /\ ~threw
  /\ Len(LastCall.passes) >= 2
  /\ LastCall.passes[2].depth = LastCall.passes[1].depth - 1

\* ------------------------------------------------- the class of the live tree
\* C37: at every point in the App the class of the live tree instance is the
\* one the selected tree type names.
C37_ClassMatches == treeType = selectedType

\* --------------------------------------- stored trees and the live tree
\* The tree objects the App keeps aside: the undo stack, the redo stack and
\* treeBeforeAnimation when it is not null.
StoredSnapshots ==
  {undoStack[i] : i \in 1..Len(undoStack)}
    \cup {redoStack[i] : i \in 1..Len(redoStack)}
    \cup ({treeBeforeAnimation} \ {NoSnapshot})

====
